---- MODULE Spec2Model ----
(***************************************************************************)
(* Model of the analytics core of garmin-streamlit-dashboard: the activity *)
(* normalizers (utils/data_processing.py, pages/P2_Running_performance.py),*)
(* the personal-record extraction (pages/P5_Personal_Records.py and the    *)
(* older pages/5_Personal_Records.py) and the dominant-zone classification *)
(* (calculate_pace_per_zone_trend); the time in HR zones per week or month *)
(* (SpecPeriod), the daily training load with its rolling means and ACWR   *)
(* (pages/3_Training_Load.py, SpecLoad) and the correlations of the daily  *)
(* summaries (pages/4_Correlations.py, pages/P1_Health_overview.py,        *)
(* SpecCorr); the running and wellness aggregations of the dashboard       *)
(* summary with the sleep and HRV normalizers and the stress trace of the  *)
(* health overview (pages/P0_Dashboard_Summary.py, SpecSummary); and the   *)
(* parquet file cache of utils/garmin_utils.py behind the page loaders     *)
(* memoized with st.cache_data (SpecCache).                                *)
(*                                                                         *)
(* Numbers are exact rationals [k |-> "num", n, d] in lowest terms, or NaN.*)
(* A raw cell is what the API put under a key: a number, an unparsable     *)
(* text, null, or nothing at all (key absent from the record).             *)
(***************************************************************************)
EXTENDS Integers, Sequences, FiniteSets, TLC

(* ------------------------------ bounds --------------------------------- *)
MaxActs == 2

(* ------------------------------ numbers -------------------------------- *)
Abs(x) == IF x < 0 THEN -x ELSE x

RECURSIVE GCD(_, _)
GCD(a, b) == IF b = 0 THEN a ELSE GCD(b, a % b)

NaN == [k |-> "nan", n |-> 0, d |-> 1]

Q(n, d) ==
    LET s == IF d < 0 THEN -1 ELSE 1
        g == GCD(Abs(n), Abs(d))
    IN  [k |-> "num", n |-> (s * n) \div g, d |-> (s * d) \div g]

I(n) == Q(n, 1)

notna(x) == x.k = "num"

(* comparisons as pandas/numpy evaluate them: any comparison with NaN is False *)
Lt(a, b) == notna(a) /\ notna(b) /\ a.n * b.d < b.n * a.d
Le(a, b) == notna(a) /\ notna(b) /\ a.n * b.d <= b.n * a.d
Gt(a, b) == Lt(b, a)
Ge(a, b) == Le(b, a)

(* a / b for a non-zero divisor; NaN propagates *)
Div(a, b) ==
    IF notna(a) /\ notna(b) /\ b.n # 0 THEN Q(a.n * b.d, a.d * b.n) ELSE NaN

Mul(a, b) ==
    IF notna(a) /\ notna(b) THEN Q(a.n * b.n, a.d * b.d) ELSE NaN

(* ------------------------------ raw cells ------------------------------ *)
RNum(n, d) == [k |-> "num", n |-> Q(n, d).n, d |-> Q(n, d).d]
RInt(n)    == RNum(n, 1)
RText      == [k |-> "str", n |-> 0, d |-> 1]
RNone      == [k |-> "none", n |-> 0, d |-> 1]
RAbsent    == [k |-> "absent", n |-> 0, d |-> 1]

(* pd.to_numeric(col, errors='coerce') on one cell *)
to_numeric(c) == IF c.k = "num" THEN Q(c.n, c.d) ELSE NaN

(* safe_float(value): float(value), NaN on ValueError / TypeError *)
safe_float(c) == IF c.k = "num" THEN Q(c.n, c.d) ELSE NaN

(* pd.to_datetime(col, errors='coerce').dt.date on one cell: day number or NaT *)
to_date(c) == IF c.k = "num" THEN I(c.n) ELSE NaN

(* activityType cell: a dict with typeKey, a bare string, or anything else *)
TDict(key) == [k |-> "dict", key |-> key]
TStr(key)  == [k |-> "str", key |-> key]
TNone      == [k |-> "none", key |-> "None"]

(* lambda x: x.get('typeKey') if isinstance(x, dict) else x if isinstance(x, str) else None *)
activityType_key(t) == IF t.k \in {"dict", "str"} THEN t.key ELSE "None"

TAbsent    == [k |-> "absent", key |-> "None"]

(* ------------------------- raw activity records ------------------------ *)
(* One record of client.get_activities_by_date, as a row of                *)
(* pd.DataFrame(raw_data): a key missing from the record is an absent cell.*)
OptionalCols ==
    {"fastestSplit_1000", "fastestSplit_1609", "fastestSplit_5000",
     "fastestSplit_10000", "maxSpeed", "maxPower", "elevationGain",
     "vO2MaxValue", "averageRunningCadenceInStepsPerMinute"}

(* the timeInHrZone cell: a list of {zoneNumber, timeInSeconds} dicts, or   *)
(* anything that is not a list                                             *)
ZoneList(items) == [k |-> "list", items |-> items]
NoZoneList      == [k |-> "none", items |-> <<>>]

BaseActivity ==
    [activityId |-> 0,
     activityType |-> TDict("running"),
     startTimeLocal |-> RInt(1),
     startTimeGMT |-> RInt(1),
     duration |-> RInt(1500),
     distance |-> RInt(4000),
     averageHR |-> RInt(150),
     fastestSplit_1000 |-> RAbsent,
     fastestSplit_1609 |-> RAbsent,
     fastestSplit_5000 |-> RAbsent,
     fastestSplit_10000 |-> RAbsent,
     maxSpeed |-> RAbsent,
     maxPower |-> RAbsent,
     elevationGain |-> RAbsent,
     vO2MaxValue |-> RAbsent,
     averageRunningCadenceInStepsPerMinute |-> RAbsent,
     aerobicTrainingEffect |-> RNone,
     hrTimeInZone |-> [i \in 1..5 |-> RAbsent],
     timeInHrZone |-> NoZoneList]

(* a column exists in the DataFrame iff some record carries the key *)
HasRawCol(T, c) == \E i \in 1..Len(T) : T[i][c].k # "absent"

(* the column hrTimeInZone_z *)
HasZoneCol(T, z) == \E i \in 1..Len(T) : T[i].hrTimeInZone[z].k # "absent"

(* Series.fillna(0) on one cell *)
fillna0(x) == IF notna(x) THEN x ELSE I(0)

(* ------------------------------ normalizers ---------------------------- *)
EmptyFrame == [rows |-> <<>>, cols |-> {}]

(* the mask with the duration test forgotten *)
mask_pace_without_duration(distance_km, duration_minutes) ==
    Gt(distance_km, I(0))

(* mask_pace and the masked assignment of pace_min_per_km *)
mask_pace(distance_km, duration_minutes) ==
    Gt(distance_km, I(0)) /\ Gt(duration_minutes, I(0))

pace_of(distance_km, duration_minutes) ==
    IF mask_pace(distance_km, duration_minutes)
    THEN Div(duration_minutes, distance_km)
    ELSE NaN

(* one row of process_general_activities_df, before the final sort *)
GeneralRow(r, T) ==
    LET duration_seconds == to_numeric(r.duration)
        duration_minutes == Div(duration_seconds, I(60))
        distance_meters  == to_numeric(r.distance)
        distance_km      == Div(distance_meters, I(1000))
    IN  [activityId |-> r.activityId,
         activityType |-> r.activityType,
         activityType_key |-> activityType_key(r.activityType),
         startTimeGMT_dt |-> to_date(r.startTimeGMT),
         date |-> to_date(r.startTimeLocal),
         duration_seconds |-> duration_seconds,
         duration_minutes |-> duration_minutes,
         distance_meters |-> distance_meters,
         distance_km |-> distance_km,
         pace_min_per_km |-> pace_of(distance_km, duration_minutes),
         averageHR |-> r.averageHR,
         avgHR |-> to_numeric(r.averageHR),
         avgCadence |->
             IF HasRawCol(T, "averageRunningCadenceInStepsPerMinute")
             THEN Mul(to_numeric(r.averageRunningCadenceInStepsPerMinute), I(2))
             ELSE NaN,
         vo2MaxValue_activity |->
             IF HasRawCol(T, "vO2MaxValue") THEN to_numeric(r.vO2MaxValue) ELSE NaN,
         fastestSplit_1000 |-> r.fastestSplit_1000,
         fastestSplit_1609 |-> r.fastestSplit_1609,
         fastestSplit_5000 |-> r.fastestSplit_5000,
         fastestSplit_10000 |-> r.fastestSplit_10000,
         maxSpeed |-> r.maxSpeed,
         maxPower |-> r.maxPower,
         elevationGain |-> r.elevationGain,
         aerobicTE |-> to_numeric(r.aerobicTrainingEffect),
         time_in_zone_minutes |->
             [z \in 1..5 |->
                 IF HasZoneCol(T, z)
                 THEN Div(fillna0(to_numeric(r.hrTimeInZone[z])), I(60))
                 ELSE I(0)]]

GeneralCols(T) ==
    {"activityId", "startTimeGMT_dt", "date", "duration_seconds", "duration_minutes",
     "distance_meters", "distance_km", "pace_min_per_km", "averageHR", "avgHR"}
    \cup (IF T # <<>> /\ \E i \in 1..Len(T) : T[i].activityType.k # "absent"
          THEN {"activityType", "activityType_key"} ELSE {})
    \cup (IF HasRawCol(T, "averageRunningCadenceInStepsPerMinute") THEN {"avgCadence"} ELSE {})
    \cup (IF HasRawCol(T, "vO2MaxValue") THEN {"vo2MaxValue_activity"} ELSE {})
    \cup {c \in OptionalCols \ {"vO2MaxValue", "averageRunningCadenceInStepsPerMinute"} :
              HasRawCol(T, c)}

(* df.sort_values(by='date'): ascending, NaT last; the default sort is not *)
(* stable, so rows of equal date may come out in either order              *)
DateSorted(rows) ==
    \A i, j \in 1..Len(rows) :
        i < j => \/ ~notna(rows[j].date)
                 \/ Le(rows[i].date, rows[j].date)

Perms(n) == {p \in [1..n -> 1..n] : \A i, j \in 1..n : i # j => p[i] # p[j]}

sort_values_by_date(rows) ==
    {s \in {[i \in 1..Len(rows) |-> rows[p[i]]] : p \in Perms(Len(rows))} : DateSorted(s)}

(* the set of frames process_general_activities_df may return for table T *)
process_general_activities_df(T) ==
    IF T = <<>> THEN {EmptyFrame}
    ELSE {[rows |-> s, cols |-> GeneralCols(T)] :
             s \in sort_values_by_date([i \in 1..Len(T) |-> GeneralRow(T[i], T)])}

(* pages/P2_Running_performance.py keeps its own copy of the same function *)
local_process_activities_df(T) ==
    IF T = <<>> THEN {EmptyFrame}
    ELSE {[rows |-> s, cols |-> GeneralCols(T)] :
             s \in sort_values_by_date([i \in 1..Len(T) |-> GeneralRow(T[i], T)])}

(* safe_float(value, 0.0) *)
safe_float_or_zero(c) == IF c.k = "num" THEN Q(c.n, c.d) ELSE I(0)

(* time_in_zone{z}_seconds after the iterrows loop over timeInHrZone: the  *)
(* last entry of the list with zoneNumber z, 0.0 without one               *)
RECURSIVE time_in_zone_seconds(_, _)
time_in_zone_seconds(items, z) ==
    IF items = <<>> THEN I(0)
    ELSE LET last == items[Len(items)]
         IN  IF last[1] = z /\ 1 <= z /\ z <= 5
             THEN safe_float_or_zero(last[2])
             ELSE time_in_zone_seconds(SubSeq(items, 1, Len(items) - 1), z)

(* one row of the older process_activities_df (safe_float, date from GMT)  *)
LegacyRow(r) ==
    LET duration_seconds == safe_float(r.duration)
        duration_minutes == Div(duration_seconds, I(60))
        distance_meters  == safe_float(r.distance)
        distance_km      == Div(distance_meters, I(1000))
    IN  [activityId |-> r.activityId,
         activityType |-> r.activityType,
         date |-> to_date(r.startTimeGMT),
         duration_seconds |-> duration_seconds,
         duration_minutes |-> duration_minutes,
         distance_meters |-> distance_meters,
         distance_km |-> distance_km,
         pace_min_per_km |-> pace_of(distance_km, duration_minutes),
         avgHR |-> safe_float(r.averageHR),
         vo2_max_activity |-> safe_float(r.vO2MaxValue),
         aerobicTrainingEffect |-> safe_float(r.aerobicTrainingEffect),
         time_in_zone_minutes |->
             [z \in 1..5 |->
                 Div(IF r.timeInHrZone.k = "list"
                     THEN time_in_zone_seconds(r.timeInHrZone.items, z)
                     ELSE I(0), I(60))]]

process_activities_df(T) ==
    IF T = <<>> THEN EmptyFrame
    ELSE [rows |-> [i \in 1..Len(T) |-> LegacyRow(T[i])],
          cols |-> {"activityId", "activityType", "date", "duration_seconds",
                    "duration_minutes", "distance_meters", "distance_km",
                    "pace_min_per_km", "avgHR", "vo2_max_activity",
                    "aerobicTrainingEffect", "time_in_zone_minutes"}]

(* ------------------------- frame helpers ------------------------------- *)
(* position of the first row holding the smallest / largest non-NaN value  *)
(* of column c: Series.idxmin / idxmax (skipna) followed by .loc           *)
(* idxmin taking the last of several equal minima *)
idxmin_last(S, c) ==
    CHOOSE i \in 1..Len(S) :
        /\ notna(S[i][c])
        /\ \A j \in 1..Len(S) :
              notna(S[j][c]) => /\ Le(S[i][c], S[j][c])
                                /\ (j > i => Lt(S[i][c], S[j][c]))

idxmin(S, c) ==
    CHOOSE i \in 1..Len(S) :
        /\ notna(S[i][c])
        /\ \A j \in 1..Len(S) :
              notna(S[j][c]) => /\ Le(S[i][c], S[j][c])
                                /\ (j < i => Lt(S[i][c], S[j][c]))

idxmax(S, c) ==
    CHOOSE i \in 1..Len(S) :
        /\ notna(S[i][c])
        /\ \A j \in 1..Len(S) :
              notna(S[j][c]) => /\ Ge(S[i][c], S[j][c])
                                /\ (j < i => Gt(S[i][c], S[j][c]))

notna_any(S, c) == \E i \in 1..Len(S) : notna(S[i][c])

(* ------------------ pages/P5_Personal_Records.py ----------------------- *)
running_keys ==
    {"running", "trail_running", "track_running", "indoor_running", "street_running"}

(* the pd.to_numeric(errors='coerce') loop over the raw columns of one row *)
NumericRow(r) ==
    [r EXCEPT !.maxSpeed = to_numeric(@),
              !.maxPower = to_numeric(@),
              !.averageHR = to_numeric(@),
              !.elevationGain = to_numeric(@),
              !.fastestSplit_1000 = to_numeric(@),
              !.fastestSplit_1609 = to_numeric(@),
              !.fastestSplit_5000 = to_numeric(@),
              !.fastestSplit_10000 = to_numeric(@)]

(* running_activities of calculate_personal_records_detailed *)
running_activities_detailed(df) ==
    IF df.rows # <<>> /\ "activityType_key" \in df.cols
    THEN LET sel == SelectSeq(df.rows, LAMBDA r : r.activityType_key \in running_keys)
         IN  [rows |-> [i \in 1..Len(sel) |-> NumericRow(sel[i])],
              cols |-> IF sel = <<>> THEN {} ELSE df.cols]
    ELSE EmptyFrame

NoneVal == [k |-> "none", n |-> 0, d |-> 1]

(* the placeholder of get_pr_details and Python's None as a dict value *)
PyNone == [isNone |-> TRUE, value |-> NoneVal, unit |-> "", date |-> NaN, id |-> -1]

get_pr_details(best_row, value_col_name, unit) ==
    LET val == best_row[value_col_name]
    IN  [isNone |-> FALSE,
         value |-> IF notna(val) THEN val ELSE NoneVal,
         unit |-> unit,
         date |-> IF notna(best_row.startTimeGMT_dt)
                  THEN best_row.startTimeGMT_dt ELSE best_row.date,
         id |-> best_row.activityId]

garmin_segment_prs_config ==
    ("Fastest 1km (Segment)" :> "fastestSplit_1000") @@
    ("Fastest 1 Mile (Segment)" :> "fastestSplit_1609") @@
    ("Fastest 5km (Segment)" :> "fastestSplit_5000") @@
    ("Fastest 10km (Segment)" :> "fastestSplit_10000")

full_run_event_prs_config ==
    ("Fastest 5km (Full Event)" :> <<Q(490, 100), Q(515, 100)>>) @@
    ("Fastest 10km (Full Event)" :> <<Q(980, 100), Q(1025, 100)>>) @@
    ("Fastest 15km (Full Event)" :> <<Q(1475, 100), Q(1530, 100)>>) @@
    ("Fastest Half Marathon (Full Event)" :> <<Q(2075, 100), Q(2150, 100)>>)

(* the categories with the half marathon rounded down to 21 km *)
distance_categories_config_hm_21 ==
    ("(<5km)" :> <<Q(5, 10), Q(499, 100)>>) @@
    ("(5-10km)" :> <<Q(50, 10), Q(999, 100)>>) @@
    ("(10-15km)" :> <<Q(100, 10), Q(1499, 100)>>) @@
    ("(15km-HM)" :> <<Q(150, 10), Q(210, 10)>>) @@
    ("(HM+)" :> <<Q(2101, 100), Q(10000, 10)>>)

distance_categories_config ==
    ("(<5km)" :> <<Q(5, 10), Q(499, 100)>>) @@
    ("(5-10km)" :> <<Q(50, 10), Q(999, 100)>>) @@
    ("(10-15km)" :> <<Q(100, 10), Q(1499, 100)>>) @@
    ("(15km-HM)" :> <<Q(150, 10), Q(213, 10)>>) @@
    ("(HM+)" :> <<Q(2131, 100), Q(10000, 10)>>)

(* (distance_km >= min_d) & (distance_km <= max_d) *)
in_distance(r, bounds) == Ge(r.distance_km, bounds[1]) /\ Le(r.distance_km, bounds[2])

(* SECTION 1: fastest segment PRs *)
(* the valid splits with the positive-value test forgotten *)
valid_splits_notna_only(R, column_name) ==
    SelectSeq(R.rows, LAMBDA r : notna(r[column_name]))

valid_splits(R, column_name) ==
    SelectSeq(R.rows, LAMBDA r : notna(r[column_name]) /\ Gt(r[column_name], I(0)))

segment_prs(R) ==
    LET cfg == garmin_segment_prs_config
        emitted == {l \in DOMAIN cfg : cfg[l] \in R.cols /\ valid_splits(R, cfg[l]) # <<>>}
    IN  [l \in emitted |->
            LET v == valid_splits(R, cfg[l])
            IN  get_pr_details(v[idxmin(v, cfg[l])], cfg[l], "")]

(* SECTION 2: fastest times for full run events *)
event_candidates(R, bounds) ==
    SelectSeq(R.rows, LAMBDA r : in_distance(r, bounds) /\ Gt(r.duration_seconds, I(0)))

(* the full-event records taking the longest duration *)
full_event_prs_longest(R) ==
    LET cfg == full_run_event_prs_config
        emitted == {l \in DOMAIN cfg :
                       /\ {"distance_km", "duration_seconds"} \subseteq R.cols
                       /\ event_candidates(R, cfg[l]) # <<>>
                       /\ notna_any(event_candidates(R, cfg[l]), "duration_seconds")}
    IN  [l \in emitted |->
            LET c == event_candidates(R, cfg[l])
            IN  get_pr_details(c[idxmax(c, "duration_seconds")], "duration_seconds", "")]

full_event_prs(R) ==
    LET cfg == full_run_event_prs_config
        emitted == {l \in DOMAIN cfg :
                       /\ {"distance_km", "duration_seconds"} \subseteq R.cols
                       /\ event_candidates(R, cfg[l]) # <<>>
                       /\ notna_any(event_candidates(R, cfg[l]), "duration_seconds")}
    IN  [l \in emitted |->
            LET c == event_candidates(R, cfg[l])
            IN  get_pr_details(c[idxmin(c, "duration_seconds")], "duration_seconds", "")]

(* SECTIONS 3 and 4: one record per distance category for a column that    *)
(* must be positive, taking the smallest or the largest value              *)
(* the candidates of a category with the positive-value test forgotten *)
category_candidates_any_value(R, bounds, col) ==
    SelectSeq(R.rows, LAMBDA r : in_distance(r, bounds))

category_candidates(R, bounds, col) ==
    SelectSeq(R.rows, LAMBDA r : in_distance(r, bounds) /\ Gt(r[col], I(0)))

category_prs(R, prefix, col, unit, func) ==
    LET cfg == distance_categories_config
        emitted == {s \in DOMAIN cfg :
                       /\ {"distance_km", col} \subseteq R.cols
                       /\ category_candidates(R, cfg[s], col) # <<>>
                       /\ notna_any(category_candidates(R, cfg[s], col), col)}
    IN  [key \in {prefix \o s : s \in emitted} |->
            LET s == CHOOSE t \in emitted : prefix \o t = key
                c == category_candidates(R, cfg[s], col)
                best == IF func = "idxmin" THEN c[idxmin(c, col)] ELSE c[idxmax(c, col)]
            IN  get_pr_details(best, col, unit)]

(* the single pace bracket of hr_pace_brackets_config *)
specific_hr_pace_label == "Efficient HR (~10k Target Pace)"

hr_pace_brackets_config ==
    [dist_min |-> Q(98, 10), dist_max |-> Q(102, 10),
     pace_min |-> Q(50, 10), pace_max |-> Q(55, 10)]

candidates_hr_pace(R) ==
    LET criteria == hr_pace_brackets_config
    IN  SelectSeq(R.rows, LAMBDA r :
            /\ Ge(r.distance_km, criteria.dist_min) /\ Le(r.distance_km, criteria.dist_max)
            /\ Ge(r.pace_min_per_km, criteria.pace_min)
            /\ Le(r.pace_min_per_km, criteria.pace_max)
            /\ Gt(r.averageHR, I(0)))

hr_pace_prs(R) ==
    LET c == candidates_hr_pace(R)
        emitted == IF /\ {"distance_km", "pace_min_per_km", "averageHR"} \subseteq R.cols
                      /\ c # <<>> /\ notna_any(c, "averageHR")
                   THEN {specific_hr_pace_label} ELSE {}
    IN  [l \in emitted |-> get_pr_details(c[idxmin(c, "averageHR")], "averageHR", "bpm")]

(* SECTION 5: general running milestones; a milestone without the key     *)
(* 'factor' has factor NaN                                                 *)
(* the milestones with positive_only left out of "Fastest Speed" *)
general_milestone_config_speed_unfiltered ==
    ("Fastest Speed" :>
        [col |-> "maxSpeed", unit |-> "km/h", func |-> "idxmax", factor |-> Q(36, 10),
         positive_only |-> FALSE]) @@
    ("Peak Power" :>
        [col |-> "maxPower", unit |-> "Watts", func |-> "idxmax", factor |-> NaN,
         positive_only |-> TRUE]) @@
    ("Longest Run" :>
        [col |-> "distance_km", unit |-> "km", func |-> "idxmax", factor |-> NaN,
         positive_only |-> FALSE]) @@
    ("Max Elevation Gain (Run)" :>
        [col |-> "elevationGain", unit |-> "m", func |-> "idxmax", factor |-> NaN,
         positive_only |-> FALSE]) @@
    ("Highest VO2 Max (Activity)" :>
        [col |-> "vo2MaxValue_activity", unit |-> "", func |-> "idxmax", factor |-> NaN,
         positive_only |-> TRUE])

general_milestone_config ==
    ("Fastest Speed" :>
        [col |-> "maxSpeed", unit |-> "km/h", func |-> "idxmax", factor |-> Q(36, 10),
         positive_only |-> TRUE]) @@
    ("Peak Power" :>
        [col |-> "maxPower", unit |-> "Watts", func |-> "idxmax", factor |-> NaN,
         positive_only |-> TRUE]) @@
    ("Longest Run" :>
        [col |-> "distance_km", unit |-> "km", func |-> "idxmax", factor |-> NaN,
         positive_only |-> FALSE]) @@
    ("Max Elevation Gain (Run)" :>
        [col |-> "elevationGain", unit |-> "m", func |-> "idxmax", factor |-> NaN,
         positive_only |-> FALSE]) @@
    ("Highest VO2 Max (Activity)" :>
        [col |-> "vo2MaxValue_activity", unit |-> "", func |-> "idxmax", factor |-> NaN,
         positive_only |-> TRUE])

valid_data(R, cfg) ==
    SelectSeq(R.rows, LAMBDA r :
        notna(r[cfg.col]) /\ (cfg.positive_only => Gt(r[cfg.col], I(0))))

(* f"{x:.2f}": x to the nearest hundredth *)
format_2f(x) == Q((200 * x.n + x.d) \div (2 * x.d), 100)

(* the formatted value left as get_pr_details made it *)
formatted_value_unscaled(details, cfg) == format_2f(details.value)

(* formatted_value of a milestone: that of get_pr_details, overwritten     *)
(* with the value times the factor when the milestone has one; the value   *)
(* of a milestone is never None                                            *)
formatted_value(details, cfg) ==
    IF notna(cfg.factor) THEN format_2f(Mul(details.value, cfg.factor))
    ELSE format_2f(details.value)

milestone_prs(R) ==
    LET config == general_milestone_config
        emitted == {l \in DOMAIN config :
                       config[l].col \in R.cols /\ valid_data(R, config[l]) # <<>>}
    IN  [l \in emitted |->
            LET cfg == config[l]
                v == valid_data(R, cfg)
                best == IF cfg.func = "idxmax" THEN v[idxmax(v, cfg.col)]
                        ELSE v[idxmin(v, cfg.col)]
                details == get_pr_details(best, cfg.col, cfg.unit)
            IN  details @@ [formatted_value |-> formatted_value(details, cfg)]]

(* prs of calculate_personal_records_detailed for the frame R of running   *)
(* activities: the sections write disjoint keys into one dict              *)
personal_records_detailed(R) ==
    IF R.rows = <<>> THEN <<>>
    ELSE segment_prs(R) @@ full_event_prs(R)
         @@ category_prs(R, "Fastest Pace ", "pace_min_per_km", "min/km", "idxmin")
         @@ category_prs(R, "Highest Avg Cadence ", "avgCadence", "spm", "idxmax")
         @@ category_prs(R, "Lowest Avg HR ", "averageHR", "bpm", "idxmin")
         @@ hr_pace_prs(R) @@ milestone_prs(R)

(* ------------------- pages/5_Personal_Records.py ------------------------ *)
(* running_activities of the older calculate_personal_records: only the    *)
(* exact key 'running', and the raw columns are used as they were fetched  *)
running_activities_legacy(df) ==
    IF df.rows # <<>> /\ "activityType_key" \in df.cols
    THEN LET sel == SelectSeq(df.rows, LAMBDA r : r.activityType_key = "running")
         IN  [rows |-> sel, cols |-> IF sel = <<>> THEN {} ELSE df.cols,
              text |-> {c \in {"fastestSplit_1000", "fastestSplit_1609"} :
                           \E i \in 1..Len(df.rows) : df.rows[i][c].k = "str"}]
    ELSE [rows |-> <<>>, cols |-> {}, text |-> {}]

(* a raw column read as numbers: a number stays, null and absent are NaN   *)
RawNumericRows(R, c) == [i \in 1..Len(R.rows) |-> [R.rows[i] EXCEPT ![c] = to_numeric(@)]]

(* pd.notna(col).any() on a raw column: a text cell is not NA *)
raw_notna_any(R, c) == \E i \in 1..Len(R.rows) : R.rows[i][c].k \in {"num", "str"}

legacy_entry(row, col) ==
    [isNone |-> FALSE, value |-> row[col], unit |-> col, date |-> row.date,
     id |-> row.activityId]

(* idxmin on an object column (one holding a text cell) and .loc of the    *)
(* NaN that idxmax gives for an all-NaN column both raise                  *)
legacy_raises(R) ==
    \/ \E c \in {"fastestSplit_1000", "fastestSplit_1609"} :
          c \in R.cols /\ raw_notna_any(R, c) /\ c \in R.text
    \/ ~notna_any(R.rows, "distance_km")
    \/ ~notna_any(R.rows, "duration_minutes")

runs_over_10k(R) == SelectSeq(R.rows, LAMBDA r : Gt(r.distance_km, I(10)))

legacy_split_prs(R, key, c) ==
    LET emitted == IF c \in R.cols /\ raw_notna_any(R, c) THEN {key} ELSE {}
        S == RawNumericRows(R, c)
    IN  [l \in emitted |-> legacy_entry(S[idxmin(S, c)], c)]

legacy_pace_prs(R) ==
    LET S == runs_over_10k(R)
        emitted == IF S # <<>> /\ notna_any(S, "pace_min_per_km")
                   THEN {"fastest_pace_gt_10k"} ELSE {}
    IN  [l \in emitted |-> legacy_entry(S[idxmin(S, "pace_min_per_km")], "pace_min_per_km")]

legacy_vo2_prs(R) ==
    LET c == "vo2MaxValue_activity"
        emitted == IF c \in R.cols /\ notna_any(R.rows, c)
                   THEN {"highest_vo2max_activity"} ELSE {}
    IN  [l \in emitted |-> legacy_entry(R.rows[idxmax(R.rows, c)], c)]

(* result of calculate_personal_records: the dict, or raised *)
personal_records_legacy(R) ==
    IF R.rows = <<>> THEN [raised |-> FALSE, prs |-> <<>>]
    ELSE IF legacy_raises(R) THEN [raised |-> TRUE, prs |-> <<>>]
    ELSE [raised |-> FALSE,
          prs |-> legacy_split_prs(R, "fastest_1k", "fastestSplit_1000")
                  @@ legacy_split_prs(R, "fastest_1mile", "fastestSplit_1609")
                  @@ ("longest_run_distance" :>
                         legacy_entry(R.rows[idxmax(R.rows, "distance_km")], "distance_km"))
                  @@ ("longest_run_duration" :>
                         legacy_entry(R.rows[idxmax(R.rows, "duration_minutes")],
                                      "duration_minutes"))
                  @@ legacy_pace_prs(R) @@ legacy_vo2_prs(R)
                  @@ ("fastest_5k_calculated" :> PyNone)
                  @@ ("fastest_10k_calculated" :> PyNone)]

(* ---------------- calculate_pace_per_zone_trend -------------------------- *)
Add(a, b) ==
    IF notna(a) /\ notna(b)
    THEN LET g == GCD(a.d, b.d)
         IN  Q(a.n * (b.d \div g) + b.n * (a.d \div g), (a.d \div g) * b.d)
    ELSE NaN

RECURSIVE SumSeq(_)
SumSeq(s) == IF s = <<>> THEN I(0) ELSE Add(s[1], SumSeq(Tail(s)))

Mean(s) == Div(SumSeq(s), I(Len(s)))

(* the sidebar inputs of pages/P2_Running_performance.py; each number_input *)
(* is limited to 80..220 and a zone's max to at least that zone's min       *)
ZoneInputs ==
    {z \in {[z1_max |-> 120, z2_min |-> 121, z2_max |-> 145, z3_min |-> 146,
             z3_max |-> 160, z4_min |-> 161, z4_max |-> 175, z5_min |-> 176],
            [z1_max |-> 120, z2_min |-> 125, z2_max |-> 145, z3_min |-> 146,
             z3_max |-> 160, z4_min |-> 161, z4_max |-> 175, z5_min |-> 150]} :
        /\ \A f \in DOMAIN z : z[f] >= 80 /\ z[f] <= 220
        /\ z.z2_max >= z.z2_min /\ z.z3_max >= z.z3_min /\ z.z4_max >= z.z4_min}

(* the zones with zone 5 left open at the top (a bound no heart rate reaches) *)
user_hr_zone_definitions_open_top(z) ==
    << <<"Zone 1", I(0), I(z.z1_max)>>,
       <<"Zone 2 (Easy)", I(z.z2_min), I(z.z2_max)>>,
       <<"Zone 3 (Moderate/Tempo)", I(z.z3_min), I(z.z3_max)>>,
       <<"Zone 4 (Threshold/Hard)", I(z.z4_min), I(z.z4_max)>>,
       <<"Zone 5 (Max Effort)", I(z.z5_min), I(100000)>> >>

(* the dict, in insertion order *)
user_hr_zone_definitions(z) ==
    << <<"Zone 1", I(0), I(z.z1_max)>>,
       <<"Zone 2 (Easy)", I(z.z2_min), I(z.z2_max)>>,
       <<"Zone 3 (Moderate/Tempo)", I(z.z3_min), I(z.z3_max)>>,
       <<"Zone 4 (Threshold/Hard)", I(z.z4_min), I(z.z4_max)>>,
       <<"Zone 5 (Max Effort)", I(z.z5_min), I(220)>> >>

(* the classification with open brackets: min_bpm < avg_hr < max_bpm *)
get_primary_zone_open(avg_hr, zones_def) ==
    LET hits == {i \in 1..Len(zones_def) :
                    Lt(zones_def[i][2], avg_hr) /\ Lt(avg_hr, zones_def[i][3])}
    IN  IF hits = {} THEN "None"
        ELSE zones_def[CHOOSE i \in hits : \A j \in hits : i <= j][1]

(* the first zone, in dict order, with min_bpm <= avg_hr <= max_bpm *)
get_primary_zone(avg_hr, zones_def) ==
    LET hits == {i \in 1..Len(zones_def) :
                    Le(zones_def[i][2], avg_hr) /\ Le(avg_hr, zones_def[i][3])}
    IN  IF hits = {} THEN "None"
        ELSE zones_def[CHOOSE i \in hits : \A j \in hits : i <= j][1]

min_duration_for_classification_minutes == 10

(* df with the column primary_zone_by_avg_hr *)
zone_classified(running_df, zones_def) ==
    LET long == SelectSeq(running_df.rows, LAMBDA r :
                    Ge(r.duration_minutes, I(min_duration_for_classification_minutes)))
    IN  [i \in 1..Len(long) |->
            [activityId |-> long[i].activityId,
             date |-> long[i].date,
             avgHR |-> long[i].avgHR,
             duration_minutes |-> long[i].duration_minutes,
             pace_min_per_km |-> long[i].pace_min_per_km,
             primary_zone_by_avg_hr |-> get_primary_zone(long[i].avgHR, zones_def)]]

(* dropna(subset=['primary_zone_by_avg_hr', 'pace_min_per_km', 'date']) *)
classified_runs(zoned_rows) ==
    SelectSeq(zoned_rows, LAMBDA r :
        r.primary_zone_by_avg_hr # "None" /\ notna(r.pace_min_per_km) /\ notna(r.date))

(* pd.Grouper(freq='W-MON', label='left', closed='left'): the Monday on or *)
(* before the day; day 0 is a Monday                                       *)
week_label(d) == I(d.n - (d.n % 7))

pace_trend_groups(C) ==
    {<<week_label(C[i].date), C[i].primary_zone_by_avg_hr>> : i \in 1..Len(C)}

RECURSIVE group_paces(_, _)
group_paces(C, g) ==
    IF C = <<>> THEN <<>>
    ELSE (IF <<week_label(C[1].date), C[1].primary_zone_by_avg_hr>> = g
          THEN <<C[1].pace_min_per_km>> ELSE <<>>) \o group_paces(Tail(C), g)

(* the rows of the frame calculate_pace_per_zone_trend returns *)
calculate_pace_per_zone_trend(running_df, zones_def) ==
    IF running_df.rows = <<>> THEN {}
    ELSE LET C == classified_runs(zone_classified(running_df, zones_def))
         IN  {[date |-> g[1], primary_zone_by_avg_hr |-> g[2],
               pace_min_per_km |-> Mean(group_paces(C, g))] : g \in pace_trend_groups(C)}

(* running_df of pages/P2_Running_performance.py *)
running_df_p2(df) ==
    IF df.rows # <<>> /\ "activityType_key" \in df.cols
    THEN LET sel == SelectSeq(df.rows, LAMBDA r : r.activityType_key = "running")
         IN  [rows |-> sel, cols |-> IF sel = <<>> THEN {} ELSE df.cols]
    ELSE EmptyFrame

(* ---------------------- time in HR zones per period -------------------- *)
(* Day numbers count from Monday 2024-01-01 (day 0). The last days of      *)
(* 2023-12, 2024-01, ... 2024-05 are the month ends of the calendar.       *)
MonthEnds == {-1, 30, 59, 90, 120, 151}

(* the weekly rule with the bucket labelled by its right edge *)
resample_label_week_right(rule, d) ==
    CASE rule = "W-MON" -> d - (d % 7) + 7
      [] rule = "ME"    -> CHOOSE m \in MonthEnds :
                               m <= d /\ \A k \in MonthEnds : k <= d => k <= m
      [] rule = "W"     -> d + (6 - (d % 7))

(* label of the bucket of day d.                                           *)
(* 'W-MON' and 'ME' are resampled with label='left', closed='left': the    *)
(* bucket starts on an anchor (a Monday, a month end) and is labelled by   *)
(* it. 'W' is W-SUN with the defaults label='right', closed='right': the   *)
(* bucket ends on a Sunday and is labelled by it.                          *)
resample_label(rule, d) ==
    CASE rule = "W-MON" -> d - (d % 7)
      [] rule = "ME"    -> CHOOSE m \in MonthEnds :
                               m <= d /\ \A k \in MonthEnds : k <= d => k <= m
      [] rule = "W"     -> d + (6 - (d % 7))

(* the rows of a frame that carry a date; NaT index entries fall in no bin *)
dated(rows) == SelectSeq(rows, LAMBDA r : notna(r.date))

min_day(rows) == CHOOSE d \in {rows[i].date.n : i \in 1..Len(rows)} :
                     \A i \in 1..Len(rows) : d <= rows[i].date.n
max_day(rows) == CHOOSE d \in {rows[i].date.n : i \in 1..Len(rows)} :
                     \A i \in 1..Len(rows) : d >= rows[i].date.n

(* the bin labels from the bucket of the first day to that of the last,    *)
(* in order: resample() lays the bins over the whole range of the index    *)
RECURSIVE bin_labels(_, _, _, _)
bin_labels(rule, rows, d, hi) ==
    IF d > hi THEN <<>>
    ELSE (IF d = min_day(rows) \/ resample_label(rule, d) # resample_label(rule, d - 1)
          THEN <<resample_label(rule, d)>> ELSE <<>>)
         \o bin_labels(rule, rows, d + 1, hi)

RECURSIVE bin_minutes(_, _, _, _)
bin_minutes(rule, rows, label, z) ==
    IF rows = <<>> THEN I(0)
    ELSE Add(IF resample_label(rule, rows[1].date.n) = label
             THEN fillna0(rows[1].time_in_zone_minutes[z]) ELSE I(0),
             bin_minutes(rule, Tail(rows), label, z))

(* frame.set_index('date')[zone_cols].resample(rule, ...).sum().reset_index() *)
resample_sum(rows, rule) ==
    LET R == dated(rows)
    IN  IF R = <<>> THEN <<>>
        ELSE LET L == bin_labels(rule, R, min_day(R), max_day(R))
             IN  [i \in 1..Len(L) |->
                     [date |-> I(L[i]),
                      minutes |-> [z \in 1..5 |-> bin_minutes(rule, R, L[i], z)]]]

NoZoneTable == [rule |-> "none", rows |-> <<>>]

(* hr_zone_resample_rule of pages/P2_Running_performance.py *)
hr_zone_resample_rule(hr_zone_agg_period) ==
    IF hr_zone_agg_period = "Weekly" THEN "W-MON" ELSE "ME"

(* time_in_zones_over_time of pages/P2_Running_performance.py *)
time_in_zones_over_time(running_df, hr_zone_agg_period) ==
    IF running_df.rows # <<>> /\ "date" \in running_df.cols
    THEN [rule |-> hr_zone_resample_rule(hr_zone_agg_period),
          rows |-> resample_sum(running_df.rows, hr_zone_resample_rule(hr_zone_agg_period))]
    ELSE NoZoneTable

(* calculate_hr_zone_distribution(processed_activities_df, period) *)
calculate_hr_zone_distribution(frame, period) ==
    IF frame.rows = <<>> THEN NoZoneTable
    ELSE [rule |-> period, rows |-> resample_sum(frame.rows, period)]

(* Series.str.contains('running', case=False, na=False) on one activityType *)
(* cell: only a string can contain the word                                *)
contains_running(t) ==
    t.k = "str" /\ t.key \in {"running", "trail_running", "track_running",
                             "indoor_running", "street_running", "Running"}

(* running_activities_df of pages/2_Running_performance.py *)
running_activities_df(frame) ==
    IF frame.rows = <<>> THEN EmptyFrame
    ELSE LET sel == SelectSeq(frame.rows, LAMBDA r : contains_running(r.activityType))
         IN  [rows |-> sel, cols |-> IF sel = <<>> THEN {} ELSE frame.cols]

(* ------------------- calculate_custom_training_load -------------------- *)
load_methods == {"aerobic_te_sum", "trimp_edwards", "duration_hr_basic"}

(* the dropna on duration_minutes alone *)
load_df_duration_only(frame) ==
    SelectSeq(frame.rows, LAMBDA r : notna(r.duration_minutes))

(* load_df: the rows left by dropna(subset=['duration_minutes', 'avgHR']) *)
load_df(frame) ==
    SelectSeq(frame.rows, LAMBDA r : notna(r.duration_minutes) /\ notna(r.avgHR))

(* trimp_score of one row: time in zone i times i, over the five zones *)
RECURSIVE trimp_score(_, _)
trimp_score(r, i) ==
    IF i = 0 THEN I(0)
    ELSE Add(trimp_score(r, i - 1),
             IF notna(r.time_in_zone_minutes[i])
             THEN Mul(r.time_in_zone_minutes[i], I(i)) ELSE I(0))

(* custom_load of one row of load_df *)
custom_load(r, method) ==
    CASE method = "trimp_edwards"  -> trimp_score(r, 5)
      [] method = "aerobic_te_sum" -> fillna0(r.aerobicTrainingEffect)
      [] OTHER                     -> Mul(r.duration_minutes, r.avgHR)

RECURSIVE date_load_sum(_, _, _)
date_load_sum(rows, d, method) ==
    IF rows = <<>> THEN I(0)
    ELSE Add(IF rows[1].date.n = d THEN custom_load(rows[1], method) ELSE I(0),
             date_load_sum(Tail(rows), d, method))

(* the dates of the groups in ascending order *)
RECURSIVE group_dates(_, _, _)
group_dates(rows, d, hi) ==
    IF d > hi THEN <<>>
    ELSE (IF \E i \in 1..Len(rows) : rows[i].date.n = d THEN <<d>> ELSE <<>>)
         \o group_dates(rows, d + 1, hi)

(* load_df.groupby('date')['custom_load'].sum().reset_index(): one row per *)
(* date, sorted by date; a row without a date belongs to no group          *)
calculate_custom_training_load(frame, method) ==
    IF frame.rows = <<>> THEN <<>>
    ELSE LET R == dated(load_df(frame))
         IN  IF R = <<>> THEN <<>>
             ELSE LET D == group_dates(R, min_day(R), max_day(R))
                  IN  [i \in 1..Len(D) |->
                          [date |-> I(D[i]),
                           custom_load |-> date_load_sum(R, D[i], method)]]

(* --------------- pages/3_Training_Load.py: rolling loads ---------------- *)
acute_window == 7
chronic_window == 28
chronic_min_periods == 7

(* float division of two Series cells: x / 0 is inf (or -inf), 0 / 0 is NaN *)
Inf(sign) == [k |-> "inf", n |-> sign, d |-> 0]

float_div(a, b) ==
    IF ~(notna(a) /\ notna(b)) THEN NaN
    ELSE IF b.n # 0 THEN Div(a, b)
    ELSE IF a.n = 0 THEN NaN
    ELSE Inf(IF a.n > 0 THEN 1 ELSE -1)

(* Series.fillna(0): inf is not a missing value *)
fillna0_float(x) == IF x.k = "nan" THEN I(0) ELSE x

loads_upto(S, i, window) ==
    [j \in 1..(IF i < window THEN i ELSE window) |->
        S[(IF i < window THEN 0 ELSE i - window) + j].custom_load]

(* the rolling mean with min_periods of 7 observations as well *)
rolling_mean_min7(S, i, window, min_periods) ==
    IF i >= 7 THEN Mean(loads_upto(S, i, window)) ELSE NaN

(* Series.rolling(window=w, min_periods=m).mean() at row i: the mean of    *)
(* the last w rows, NaN while fewer than m rows have been seen             *)
rolling_mean(S, i, window, min_periods) ==
    IF i >= min_periods THEN Mean(loads_upto(S, i, window)) ELSE NaN

acwr_of(acute, chronic) == fillna0_float(float_div(acute, chronic))

(* daily_load_df with acute_load_7d, chronic_load_28d and acwr *)
rolling_metrics(S) ==
    [i \in 1..Len(S) |->
        LET acute == rolling_mean(S, i, acute_window, 1)
            chronic == rolling_mean(S, i, chronic_window, chronic_min_periods)
        IN  [date |-> S[i].date,
             custom_load |-> S[i].custom_load,
             acute_load_7d |-> acute,
             chronic_load_28d |-> chronic,
             acwr |-> acwr_of(acute, chronic)]]

NoLoad == [method |-> "none", rows |-> <<>>]

(* ---------------- daily summaries and their correlations ---------------- *)
(* one record of get_daily_summaries *)
BaseDaily ==
    [calendarDate |-> RInt(0),
     sleepingSeconds |-> RInt(25200),
     restingHeartRate |-> RInt(50),
     averageStressLevel |-> RInt(30),
     totalSteps |-> RInt(8000)]

(* the metric columns of the processed frame and the raw key each one needs *)
daily_metric_cols ==
    {"sleepingHours", "restingHeartRate", "averageStressLevel", "totalSteps"}

raw_key_of(col) == IF col = "sleepingHours" THEN "sleepingSeconds" ELSE col

DailyRow(r) ==
    [calendarDate |-> to_date(r.calendarDate),
     sleepingHours |-> Div(fillna0(to_numeric(r.sleepingSeconds)), I(3600)),
     restingHeartRate |-> to_numeric(r.restingHeartRate),
     averageStressLevel |-> to_numeric(r.averageStressLevel),
     totalSteps |-> to_numeric(r.totalSteps)]

(* df.sort_values(by='calendarDate'): ascending, NaT last, equal keys in   *)
(* either order                                                            *)
CalendarSorted(rows) ==
    \A i, j \in 1..Len(rows) :
        i < j => \/ ~notna(rows[j].calendarDate)
                 \/ Le(rows[i].calendarDate, rows[j].calendarDate)

(* the frame left in the order of the raw rows *)
process_daily_summary_unsorted(T) ==
    IF T = <<>> THEN {EmptyFrame}
    ELSE {[rows |-> [i \in 1..Len(T) |-> DailyRow(T[i])],
           cols |-> {"calendarDate"} \cup {c \in daily_metric_cols : HasRawCol(T, raw_key_of(c))}]}

(* the set of frames process_daily_summary_for_plotting may return *)
process_daily_summary_for_plotting(T) ==
    IF T = <<>> THEN {EmptyFrame}
    ELSE {[rows |-> s,
           cols |-> {"calendarDate"} \cup {c \in daily_metric_cols : HasRawCol(T, raw_key_of(c))}] :
             s \in {q \in {[i \in 1..Len(T) |-> DailyRow(T[p[i]])] : p \in Perms(Len(T))} :
                      CalendarSorted(q)}}

(* Series.shift(-1): the value of the next row, NaN on the last row *)
shift_back(rows, col, i) == IF i < Len(rows) THEN rows[i + 1][col] ELSE NaN

(* a - b *)
Sub(a, b) == Add(a, Mul(I(-1), b))

(* Series.corr (Pearson): the sign of r and r squared, NaN when a column   *)
(* has no variance                                                         *)
corr(P) ==
    LET n   == I(Len(P))
        sx  == SumSeq([i \in 1..Len(P) |-> P[i].x])
        sy  == SumSeq([i \in 1..Len(P) |-> P[i].y])
        sxy == SumSeq([i \in 1..Len(P) |-> Mul(P[i].x, P[i].y)])
        sxx == SumSeq([i \in 1..Len(P) |-> Mul(P[i].x, P[i].x)])
        syy == SumSeq([i \in 1..Len(P) |-> Mul(P[i].y, P[i].y)])
        cxy == Sub(Mul(n, sxy), Mul(sx, sy))
        vx  == Sub(Mul(n, sxx), Mul(sx, sx))
        vy  == Sub(Mul(n, syy), Mul(sy, sy))
    IN  IF vx.n = 0 \/ vy.n = 0 THEN [k |-> "nan", sign |-> 0, r2 |-> NaN]
        ELSE [k |-> "num",
              sign |-> IF cxy.n > 0 THEN 1 ELSE IF cxy.n < 0 THEN -1 ELSE 0,
              r2 |-> Div(Mul(cxy, cxy), Mul(vx, vy))]

NoCorr == [k |-> "none", sign |-> 0, r2 |-> NaN]

NoPlot == [status |-> "none", next_day |-> FALSE, x_col |-> "", y_col |-> "",
           points |-> 0, pairs |-> <<>>, corr_coef |-> NoCorr]

(* the threshold test accepting a single pair *)
enough_points_from_one(correlation_data) == Len(correlation_data) >= 1

(* `not correlation_data.empty and len(correlation_data) >= 2` *)
enough_points(correlation_data) ==
    correlation_data # <<>> /\ Len(correlation_data) >= 2

(* plot_df[[x_col, y_data_col, 'calendarDate']] before the dropna *)
paired_rows(rows, x_col, y_col, y_col_is_next_day) ==
    [i \in 1..Len(rows) |->
        [x |-> rows[i][x_col],
         y |-> IF y_col_is_next_day THEN shift_back(rows, y_col, i) ELSE rows[i][y_col],
         calendarDate |-> rows[i].calendarDate]]

(* what create_correlation_plot shows for frame f *)
create_correlation_plot(f, x_col, y_col, y_col_is_next_day) ==
    IF f.rows = <<>> \/ x_col \notin f.cols
    THEN [NoPlot EXCEPT !.status = "missing_x", !.x_col = x_col, !.y_col = y_col,
                        !.next_day = y_col_is_next_day]
    ELSE IF y_col \notin f.cols
    THEN [NoPlot EXCEPT !.status = "missing_y", !.x_col = x_col, !.y_col = y_col,
                        !.next_day = y_col_is_next_day]
    ELSE LET correlation_data ==
                 SelectSeq(paired_rows(f.rows, x_col, y_col, y_col_is_next_day),
                           LAMBDA q : notna(q.x) /\ notna(q.y))
         IN  IF enough_points(correlation_data)
             THEN [status |-> "plotted", next_day |-> y_col_is_next_day,
                   x_col |-> x_col, y_col |-> y_col,
                   points |-> Len(correlation_data), pairs |-> correlation_data,
                   corr_coef |-> corr(correlation_data)]
             ELSE [status |-> "not_enough", next_day |-> y_col_is_next_day,
                   x_col |-> x_col, y_col |-> y_col,
                   points |-> Len(correlation_data), pairs |-> correlation_data,
                   corr_coef |-> NoCorr]

(* pages/P1_Health_overview.py: sleep duration against next day's resting HR; *)
(* its dropna() also drops the rows without a calendarDate                    *)
corr_df_sleep_rhr(f) ==
    IF f.rows # <<>> /\ "sleepingHours" \in f.cols /\ "restingHeartRate" \in f.cols
    THEN LET plot_data_sleep_rhr ==
                 SelectSeq(paired_rows(f.rows, "sleepingHours", "restingHeartRate", TRUE),
                           LAMBDA q : notna(q.x) /\ notna(q.y) /\ notna(q.calendarDate))
         IN  IF enough_points(plot_data_sleep_rhr)
             THEN [status |-> "plotted", next_day |-> TRUE,
                   x_col |-> "sleepingHours", y_col |-> "restingHeartRate",
                   points |-> Len(plot_data_sleep_rhr), pairs |-> plot_data_sleep_rhr,
                   corr_coef |-> corr(plot_data_sleep_rhr)]
             ELSE [status |-> "not_enough", next_day |-> TRUE,
                   x_col |-> "sleepingHours", y_col |-> "restingHeartRate",
                   points |-> Len(plot_data_sleep_rhr), pairs |-> plot_data_sleep_rhr,
                   corr_coef |-> NoCorr]
    ELSE [NoPlot EXCEPT !.status = "missing_y", !.next_day = TRUE,
                        !.x_col = "sleepingHours", !.y_col = "restingHeartRate"]

(* ---------------- pages/P0_Dashboard_Summary.py ------------------------- *)
(* data_processing.process_daily_summary_for_plotting divides the seconds  *)
(* columns without to_numeric and leaves the rows in the order of the raw  *)
(* table                                                                   *)
(* df[col_s].fillna(0) / 3600 on a column that holds a text: TypeError *)
seconds_division_raises(T) ==
    \E i \in 1..Len(T) : T[i].sleepingSeconds.k = "str"

(* data_processing.process_daily_summary_for_plotting(df_raw), when it returns *)
data_processing_daily_summary(T) ==
    IF T = <<>> THEN EmptyFrame
    ELSE [rows |-> [i \in 1..Len(T) |-> DailyRow(T[i])],
          cols |-> {"calendarDate"}
                   \cup {c \in daily_metric_cols : HasRawCol(T, raw_key_of(c))}]

(* running_df of pages/P0_Dashboard_Summary.py *)
running_df_p0(all_activities_df) ==
    IF all_activities_df.rows # <<>> /\ "activityType_key" \in all_activities_df.cols
    THEN LET sel == SelectSeq(all_activities_df.rows,
                              LAMBDA r : r.activityType_key = "running")
         IN  [rows |-> sel, cols |-> IF sel = <<>> THEN {} ELSE all_activities_df.cols]
    ELSE EmptyFrame

(* Series.mean() and Series.sum() of one bucket: NaN is skipped, the mean  *)
(* of nothing is NaN and the sum of nothing is 0                           *)
mean_skipna(x) ==
    LET v == SelectSeq(x, notna) IN IF v = <<>> THEN NaN ELSE Mean(v)

sum_skipna(x) == SumSeq(SelectSeq(x, notna))

(* the mean of a bucket with the -1 days left in *)
avg_Stress_of_all(x) == mean_skipna(x)

(* lambda x: x[x != -1].mean() if not x[x != -1].empty else np.nan *)
avg_Stress(x) ==
    LET kept == SelectSeq(x, LAMBDA v : v # I(-1))
    IN  IF kept # <<>> THEN mean_skipna(kept) ELSE NaN

(* the labels of the bins laid from the bucket of day lo to that of day hi *)
RECURSIVE labels_between(_, _, _, _)
labels_between(rule, lo, d, hi) ==
    IF d > hi THEN <<>>
    ELSE (IF d = lo \/ resample_label(rule, d) # resample_label(rule, d - 1)
          THEN <<resample_label(rule, d)>> ELSE <<>>)
         \o labels_between(rule, lo, d + 1, hi)

(* the bins of resample(rule, label='left', closed='left') over the index  *)
(* column: each label with the rows of its bucket; rows whose index is NaT *)
(* fall in no bucket                                                       *)
resample_bins(rows, index_col, rule) ==
    LET R == SelectSeq(rows, LAMBDA r : notna(r[index_col]))
        days == {R[i][index_col].n : i \in 1..Len(R)}
        lo == CHOOSE d \in days : \A e \in days : d <= e
        hi == CHOOSE d \in days : \A e \in days : d >= e
    IN  IF R = <<>> THEN <<>>
        ELSE LET L == labels_between(rule, lo, lo, hi)
             IN  [i \in 1..Len(L) |->
                     [label |-> L[i],
                      rows |-> SelectSeq(R, LAMBDA r :
                                   resample_label(rule, r[index_col].n) = L[i])]]

column(rows, c) == [i \in 1..Len(rows) |-> rows[i][c]]

NoAggregate == [rule |-> "none", rows |-> <<>>]

resample_rule(agg_period) == IF agg_period = "Weekly" THEN "W-MON" ELSE "ME"

(* aggregated_running_data with its avg_pace_min_per_km column *)
aggregated_running_data(running_df, agg_period_running) ==
    IF running_df.rows = <<>> \/ "date" \notin running_df.cols THEN NoAggregate
    ELSE LET B == resample_bins(running_df.rows, "date", resample_rule(agg_period_running))
         IN  [rule |-> resample_rule(agg_period_running),
              rows |-> [i \in 1..Len(B) |->
                  LET total_distance_km == sum_skipna(column(B[i].rows, "distance_km"))
                      total_duration_minutes == sum_skipna(column(B[i].rows, "duration_minutes"))
                  IN  [date |-> I(B[i].label),
                       total_distance_km |-> total_distance_km,
                       total_duration_minutes |-> total_duration_minutes,
                       number_of_runs |-> Len(B[i].rows),
                       avg_hr |-> mean_skipna(column(B[i].rows, "avgHR")),
                       avg_pace_min_per_km |->
                           IF Gt(total_distance_km, I(0))
                           THEN Div(total_duration_minutes, total_distance_km)
                           ELSE NaN]]]

(* the columns the wellness aggregation names; .agg raises KeyError when   *)
(* one of them is not in the frame                                         *)
wellness_agg_cols ==
    {"restingHeartRate", "averageStressLevel", "sleepingHours", "totalSteps"}

wellness_raises(daily_df_p0) ==
    daily_df_p0.rows # <<>> /\ ~(wellness_agg_cols \subseteq daily_df_p0.cols)

(* wellness_aggregated *)
wellness_aggregated(daily_df_p0, wellness_agg_period) ==
    IF daily_df_p0.rows = <<>> THEN NoAggregate
    ELSE LET B == resample_bins(daily_df_p0.rows, "calendarDate",
                                resample_rule(wellness_agg_period))
         IN  [rule |-> resample_rule(wellness_agg_period),
              rows |-> [i \in 1..Len(B) |->
                  [calendarDate |-> I(B[i].label),
                   avg_RHR |-> mean_skipna(column(B[i].rows, "restingHeartRate")),
                   avg_Stress |-> avg_Stress(column(B[i].rows, "averageStressLevel")),
                   avg_Sleep |-> mean_skipna(column(B[i].rows, "sleepingHours")),
                   total_Steps |-> sum_skipna(column(B[i].rows, "totalSteps"))]]]

(* ---------------- sleep and HRV normalizers, the health page ------------ *)
(* the overallSleepScore cell: a dict with or without 'value', or a cell   *)
(* that is no dict                                                         *)
ScoreDict(value) == [k |-> "dict", has_value |-> TRUE, value |-> value]
ScoreEmptyDict   == [k |-> "dict", has_value |-> FALSE, value |-> RNone]
ScoreNone        == [k |-> "none", has_value |-> FALSE, value |-> RNone]
ScoreAbsent      == [k |-> "absent", has_value |-> FALSE, value |-> RNone]

(* one dailySleepDTO of get_sleep_data *)
BaseSleep ==
    [calendarDate |-> RInt(0),
     sleepStartTimestampGMT |-> RInt(0),
     durationInSeconds |-> RInt(25200),
     overallSleepScore |-> ScoreDict(RInt(80))]

(* `'value' in processed_sleep['overallSleepScore'].iloc[0]` on a first    *)
(* cell that is None or NaN: TypeError, argument is not iterable           *)
sleep_score_check_raises(T) ==
    HasRawCol(T, "overallSleepScore") /\ T[1].overallSleepScore.k # "dict"

process_sleep_raises(T) == T # <<>> /\ sleep_score_check_raises(T)

SleepRow(r, T) ==
    [date |-> IF HasRawCol(T, "calendarDate") THEN to_date(r.calendarDate)
              ELSE to_date(r.sleepStartTimestampGMT),
     duration_minutes |-> Div(safe_float(r.durationInSeconds), I(60)),
     sleep_score |->
         IF HasRawCol(T, "overallSleepScore") /\ T[1].overallSleepScore.has_value
            /\ r.overallSleepScore.k = "dict" /\ r.overallSleepScore.has_value
         THEN to_numeric(r.overallSleepScore.value) ELSE NaN]

(* process_sleep_df(sleep_df), when it returns *)
process_sleep_df(T) ==
    IF T = <<>> THEN EmptyFrame
    ELSE [rows |-> SelectSeq([i \in 1..Len(T) |-> SleepRow(T[i], T)],
                             LAMBDA r : notna(r.date)),
          cols |-> {"date"}
                   \cup (IF HasRawCol(T, "durationInSeconds") THEN {"duration_minutes"} ELSE {})
                   \cup (IF HasRawCol(T, "overallSleepScore") /\ T[1].overallSleepScore.has_value
                         THEN {"sleep_score"} ELSE {})]

(* one hrvSummaries entry of get_hrv_data, which stamps each with its date *)
BaseHrv ==
    [date |-> RInt(0),
     type |-> "LAST_NIGHT_AVERAGE",
     value |-> RInt(45),
     status |-> RText,
     baselineLow |-> RInt(40),
     baselineHigh |-> RInt(60)]

(* the columns process_hrv_df selects next to date and value *)
hrv_selected_cols == {"status", "baselineLow", "baselineHigh"}

HasTypeCol(T) == \E i \in 1..Len(T) : T[i].type # "absent"

(* nightly_hrv[['date', 'hrv_nightly_avg', 'status', ...]] with one of the  *)
(* columns in no record: KeyError                                          *)
process_hrv_raises(T) ==
    /\ T # <<>>
    /\ HasRawCol(T, "value") /\ HasTypeCol(T)
    /\ \E c \in hrv_selected_cols : ~HasRawCol(T, c)

HrvRow(r) ==
    [date |-> to_date(r.date), hrv_nightly_avg |-> r.value, status |-> r.status,
     baselineLow |-> r.baselineLow, baselineHigh |-> r.baselineHigh]

(* process_hrv_df(hrv_df), when it returns; the summaries carry no hrvValue *)
process_hrv_df(T) ==
    IF T = <<>> \/ ~(HasRawCol(T, "value") /\ HasTypeCol(T)) THEN EmptyFrame
    ELSE [rows |-> SelectSeq(
                       [i \in 1..Len(SelectSeq(T, LAMBDA r : r.type = "LAST_NIGHT_AVERAGE")) |->
                           HrvRow(SelectSeq(T, LAMBDA r : r.type = "LAST_NIGHT_AVERAGE")[i])],
                       LAMBDA r : notna(r.date)),
          cols |-> {"date", "hrv_nightly_avg"} \cup hrv_selected_cols]

(* the daily snapshot of pages/P1_Health_overview.py on the last row:      *)
(* NaT.strftime and int(NaN) raise ValueError                              *)
snapshot_raises(f) ==
    /\ f.rows # <<>>
    /\ \/ ~notna(f.rows[Len(f.rows)].calendarDate)
       \/ "totalSteps" \in f.cols /\ ~notna(f.rows[Len(f.rows)].totalSteps)

(* plotting_utils.plot_rhr_and_stress: the points of the stress trace *)
stress_plot_data(f) ==
    IF f.rows = <<>> \/ "restingHeartRate" \notin f.cols
       \/ "averageStressLevel" \notin f.cols
    THEN <<>>
    ELSE LET kept == SelectSeq(f.rows, LAMBDA r : r.averageStressLevel # I(-1))
         IN  [i \in 1..Len(kept) |->
                 [calendarDate |-> kept[i].calendarDate,
                  averageStressLevel |-> kept[i].averageStressLevel]]

(* ---------------- utils/garmin_utils.py: fetching and caching ----------- *)
(* A username is the sequence of its characters; dates are day numbers.    *)
DATA_DIR == "data"

(* username.replace("@", "_").replace(".", "_") *)
sanitize(username) ==
    [i \in DOMAIN username |-> IF username[i] \in {"@", "."} THEN "_" ELSE username[i]]

(* get_user_data_path(username, data_type, start_date_str, end_date_str) *)
get_user_data_path(username, data_type, start_date_str, end_date_str) ==
    [dir |-> DATA_DIR, user_dir |-> sanitize(username),
     file |-> <<data_type, start_date_str, "to", end_date_str, "parquet">>]

(* a table as the API or a cache file holds it: whose data it is, of which *)
(* type and date range; pd.DataFrame() is the empty table                  *)
Table(owner, data_type, range) ==
    [kind |-> "table", owner |-> owner, data_type |-> data_type, range |-> range]

EmptyDataFrame == [kind |-> "empty", owner |-> <<>>, data_type |-> "", range |-> <<>>]

(* what a fetch hands back: the new files, the table and where it came from *)
Fetched(fs, table, source) == [files |-> fs, df |-> table, source |-> source]

(* the parquet files on disk: the paths that exist, each with its table *)
exists(fs, cache_path) == cache_path \in DOMAIN fs

to_parquet(fs, cache_path, table) ==
    [p \in DOMAIN fs \cup {cache_path} |-> IF p = cache_path THEN table ELSE fs[p]]

(* fetch_data_with_cache: an exception of the remote call is caught after  *)
(* the try block and nothing is written                                    *)
fetch_data_with_cache(fs, username, data_type, range, force_refresh, remote) ==
    LET cache_path == get_user_data_path(username, data_type, range[1], range[2])
    IN  IF ~force_refresh /\ exists(fs, cache_path)
        THEN Fetched(fs, fs[cache_path], "file")
        ELSE CASE remote = "up" ->
                      Fetched(to_parquet(fs, cache_path, Table(username, data_type, range)),
                              Table(username, data_type, range), "api")
               [] remote = "no_data" ->
                      Fetched(to_parquet(fs, cache_path, EmptyDataFrame), EmptyDataFrame, "api")
               [] remote = "down" -> Fetched(fs, EmptyDataFrame, "error")

(* get_hrv_data, get_sleep_data, get_body_battery: the exception is caught *)
(* around the remote call alone, the list stays empty and the empty table  *)
(* is written to the cache file                                            *)
fetch_day_by_day(fs, username, data_type, range, force_refresh, remote) ==
    LET cache_path == get_user_data_path(username, data_type, range[1], range[2])
    IN  IF ~force_refresh /\ exists(fs, cache_path)
        THEN Fetched(fs, fs[cache_path], "file")
        ELSE CASE remote = "up" ->
                      Fetched(to_parquet(fs, cache_path, Table(username, data_type, range)),
                              Table(username, data_type, range), "api")
               [] remote = "no_data" ->
                      Fetched(to_parquet(fs, cache_path, EmptyDataFrame), EmptyDataFrame, "api")
               [] remote = "down" ->
                      Fetched(to_parquet(fs, cache_path, EmptyDataFrame), EmptyDataFrame, "error")

get_activities(fs, username, range, force_refresh, remote) ==
    fetch_data_with_cache(fs, username, "activities", range, force_refresh, remote)

get_daily_summaries(fs, username, range, force_refresh, remote) ==
    fetch_data_with_cache(fs, username, "daily_summary", range, force_refresh, remote)

get_hrv_data(fs, username, range, force_refresh, remote) ==
    fetch_day_by_day(fs, username, "hrv", range, force_refresh, remote)

get_sleep_data(fs, username, range, force_refresh, remote) ==
    fetch_day_by_day(fs, username, "sleep", range, force_refresh, remote)

get_body_battery(fs, username, range, force_refresh, remote) ==
    fetch_day_by_day(fs, username, "body_battery", range, force_refresh, remote)

DataTypes == {"activities", "daily_summary", "hrv", "sleep", "body_battery"}

fetch(fs, data_type, username, range, force_refresh, remote) ==
    CASE data_type = "activities" -> get_activities(fs, username, range, force_refresh, remote)
      [] data_type = "daily_summary" -> get_daily_summaries(fs, username, range, force_refresh, remote)
      [] data_type = "hrv" -> get_hrv_data(fs, username, range, force_refresh, remote)
      [] data_type = "sleep" -> get_sleep_data(fs, username, range, force_refresh, remote)
      [] data_type = "body_battery" -> get_body_battery(fs, username, range, force_refresh, remote)

(* what a page has of a data type it does not fetch *)
NotFetched == [df |-> EmptyDataFrame, source |-> "none"]

(* the fetches of one loader, one after the other over the same files *)
RECURSIVE fetch_all(_, _, _, _, _, _, _)
fetch_all(fs, got, types, username, range, force_refresh, remote) ==
    IF types = <<>> THEN [files |-> fs, data |-> got]
    ELSE LET f == fetch(fs, types[1], username, range, force_refresh, remote)
         IN  fetch_all(f.files,
                       [got EXCEPT ![types[1]] = [df |-> f.df, source |-> f.source]],
                       Tail(types), username, range, force_refresh, remote)

(* ---------------- the page loaders and st.cache_data -------------------- *)
(* date.today() of the personal-records pages and of the module's harness *)
today == 60

(* a parameter of a loader: the argument of the request it is bound to and *)
(* whether its name starts with an underscore                              *)
Param(arg, underscore) == [arg |-> arg, underscore |-> underscore]

(* (_client, _username, _start_date, _end_date, _force_refresh) *)
session_params ==
    {Param("username", TRUE), Param("range", TRUE), Param("force_refresh", TRUE)}

(* (_client, _username, _force_refresh_all_activities=False) *)
records_params == {Param("username", TRUE), Param("force_refresh", TRUE)}

(* the loaders of the pages: the data types each fetches in order, whether *)
(* it is wrapped in st.cache_data, its parameters, and the date range it   *)
(* asks for when that is not the session's                                 *)
Loader(fn, types, memoized, params, own_range) ==
    [fn |-> fn, types |-> types, memoized |-> memoized, params |-> params,
     own_range |-> own_range]

page_loaders ==
    {Loader("load_summary_page_data", <<"activities", "daily_summary">>, TRUE,
            session_params, <<>>),
     Loader("load_and_process_health_data", <<"hrv", "sleep", "daily_summary">>, TRUE,
            session_params, <<>>),
     Loader("load_activity_data", <<"activities">>, TRUE, session_params, <<>>),
     Loader("load_correlation_page_data", <<"daily_summary">>, TRUE, session_params, <<>>),
     Loader("calculate_personal_records_detailed", <<"activities">>, TRUE,
            records_params, <<0, today>>),
     Loader("calculate_personal_records", <<"activities">>, TRUE,
            records_params, <<-8766, today>>),
     Loader("1_Health_overview", <<"hrv", "sleep", "daily_summary">>, FALSE,
            session_params, <<>>),
     Loader("2_Running_performance", <<"activities">>, FALSE, session_params, <<>>),
     Loader("3_Training_Load", <<"activities">>, FALSE, session_params, <<>>)}

(* st.cache_data hashes the arguments of the parameters whose names do not *)
(* start with an underscore                                                *)
hashed(loader) == {q.arg : q \in {r \in loader.params : ~r.underscore}}

(* the key an entry of st.cache_data is stored and looked up by *)
memo_key(loader, args) == <<loader.fn, [a \in hashed(loader) |-> args[a]]>>

(* the date range a loader fetches *)
range_of(loader, args) ==
    IF loader.own_range # <<>> THEN loader.own_range ELSE args.range

NoData == [t \in DataTypes |-> NotFetched]

NoLoader == Loader("none", <<>>, FALSE, {}, <<>>)

NoArgs == [username |-> <<>>, range |-> <<>>, force_refresh |-> FALSE]

NoResponse ==
    [loader |-> NoLoader, args |-> NoArgs, from_memo |-> FALSE, made_for |-> NoArgs,
     data |-> NoData]

(* a call of a loader: the memoized value when st.cache_data has one under *)
(* the key, the loader's fetches otherwise                                 *)
call_loader(fs, entries, loader, args, remote) ==
    LET key == memo_key(loader, args)
        got == fetch_all(fs, NoData, loader.types, args.username, range_of(loader, args),
                         args.force_refresh, remote)
    IN  IF loader.memoized /\ key \in DOMAIN entries
        THEN [files |-> fs, memo |-> entries,
              served |-> [loader |-> loader, args |-> args, from_memo |-> TRUE,
                          made_for |-> entries[key].made_for, data |-> entries[key].data]]
        ELSE [files |-> got.files,
              memo |-> IF loader.memoized
                       THEN [k \in DOMAIN entries \cup {key} |->
                                IF k = key THEN [made_for |-> args, data |-> got.data]
                                ELSE entries[k]]
                       ELSE entries,
              served |-> [loader |-> loader, args |-> args, from_memo |-> FALSE,
                          made_for |-> args, data |-> got.data]]

(* ------------------------------ inputs --------------------------------- *)
(* The tables the data source may hand over: up to MaxActs records drawn   *)
(* from one family of records, in any order, plus the three-run scenario.  *)
Run(distance, duration, local, gmt) ==
    [BaseActivity EXCEPT !.distance = distance, !.duration = duration,
                         !.startTimeLocal = local, !.startTimeGMT = gmt]

PaceFamily ==
    {Run(RInt(x[1]), RInt(x[2]), RInt(day), RInt(day)) :
        x \in {<<4000, 1500>>, <<5000, 1500>>}, day \in {1, 2}}
    \cup {Run(RInt(x[1]), RInt(x[2]), RInt(x[3]), RInt(x[3])) :
        x \in {<<2000, 750, 3>>, <<5100, 1560, 3>>, <<10200, 3300, 2>>,
               <<21100, 6600, 3>>, <<4995, 1500, 1>>, <<300, 100, 2>>,
               <<10000, 3120, 1>>, <<21400, 7000, 2>>, <<0, 1500, 3>>,
               <<4000, 0, 1>>, <<-1000, -60, 2>>}}
    \cup {Run(RNone, RInt(1500), RInt(3), RInt(3)),
          Run(RInt(4000), RText, RInt(1), RInt(1)),
          Run(RInt(4000), RInt(1500), RNone, RNone),
          Run(RInt(4000), RInt(1500), RInt(2), RInt(1))}

Measured(split, other, day) ==
    [BaseActivity EXCEPT !.fastestSplit_1000 = split, !.fastestSplit_1609 = split,
                         !.fastestSplit_5000 = split, !.fastestSplit_10000 = split,
                         !.maxSpeed = other, !.maxPower = other,
                         !.elevationGain = other, !.vO2MaxValue = other,
                         !.averageRunningCadenceInStepsPerMinute = other,
                         !.startTimeLocal = RInt(day), !.startTimeGMT = RInt(day)]

MilestoneFamily ==
    {Measured(c[1], c[1], c[2]) :
        c \in {<<RNone, 1>>, <<RText, 2>>, <<RInt(-5), 3>>, <<RInt(0), 1>>, <<RInt(0), 2>>,
               <<RInt(240), 1>>, <<RInt(240), 2>>, <<RInt(300), 2>>, <<RInt(300), 3>>}}
    \cup {Measured(RInt(240), RInt(0), 3), Measured(RAbsent, RInt(240), 3),
          Measured(RAbsent, RAbsent, 1), Measured(RInt(240), RNum(5123, 1000), 2)}

Paced(hr, duration, distance, day) ==
    [BaseActivity EXCEPT !.averageHR = hr, !.duration = duration, !.distance = distance,
                         !.startTimeLocal = RInt(day), !.startTimeGMT = RInt(day)]

HeartRateFamily ==
    {Paced(c[1], RInt(1500), RInt(4000), c[2]) :
        c \in {<<RNone, 1>>, <<RInt(120), 2>>, <<RNum(241, 2), 3>>, <<RInt(123), 1>>,
               <<RInt(150), 2>>, <<RInt(176), 3>>, <<RInt(220), 1>>, <<RInt(221), 2>>}}
    \cup {Paced(RInt(150), RInt(300), RInt(1000), 3),
          Paced(RInt(150), RInt(1200), RInt(4000), 8),
          Paced(RInt(150), RInt(1500), RInt(0), 1)}

TypeFamily ==
    {[BaseActivity EXCEPT !.activityType = t] :
        t \in {TDict("running"), TStr("running"), TDict("trail_running"),
               TDict("cycling"), TNone, TAbsent}}

(* a run with 10 minutes in zone 1 and z3 seconds in zone 3, in both the   *)
(* hrTimeInZone_N columns and the timeInHrZone list                        *)
ZoneRun(day, z3, type) ==
    [BaseActivity EXCEPT !.startTimeLocal = RInt(day), !.startTimeGMT = RInt(day),
                         !.activityType = type,
                         !.hrTimeInZone = [i \in 1..5 |->
                             IF i = 1 THEN RInt(600) ELSE IF i = 3 THEN z3 ELSE RAbsent],
                         !.timeInHrZone = ZoneList(<< <<1, RInt(600)>>, <<3, z3>>,
                                                     <<6, RInt(60)>> >>)]

ZoneTimeFamily ==
    {ZoneRun(day, RInt(300), TStr("running")) : day \in {0, 6, 7, 21, 30, 60}}
    \cup {ZoneRun(8, RNone, TStr("running")), ZoneRun(22, RInt(120), TDict("running")),
          [BaseActivity EXCEPT !.startTimeLocal = RInt(14), !.startTimeGMT = RInt(14),
                               !.activityType = TStr("running")]}

WithIds(s) == [i \in 1..Len(s) |-> [s[i] EXCEPT !.activityId = i]]

Families == {PaceFamily, MilestoneFamily, HeartRateFamily, TypeFamily}

(* activities for the training load: with and without duration, average   *)
(* HR, training effect, zone times and date                                *)
Load(day, duration, hr, te, zone_list) ==
    [BaseActivity EXCEPT !.startTimeLocal = day, !.startTimeGMT = day,
                         !.duration = duration, !.averageHR = hr,
                         !.aerobicTrainingEffect = te, !.timeInHrZone = zone_list]

TwoZones == ZoneList(<< <<1, RInt(600)>>, <<2, RInt(1200)>> >>)

LoadFamily ==
    {Load(RInt(0), RInt(1800), RInt(150), RInt(3), TwoZones),
     Load(RInt(0), RInt(3600), RInt(140), RNum(5, 2), TwoZones),
     Load(RInt(1), RInt(1800), RNone, RInt(3), TwoZones),
     Load(RInt(1), RNone, RInt(150), RInt(2), NoZoneList),
     Load(RInt(2), RInt(1800), RInt(150), RNone, NoZoneList),
     Load(RInt(2), RInt(1800), RNone, RNone, NoZoneList),
     Load(RNone, RInt(1800), RInt(150), RInt(3), TwoZones),
     Load(RInt(3), RInt(2400), RInt(120), RInt(4), NoZoneList)}

(* longer histories: one activity of one minute per sample day, the        *)
(* average HR being the day's duration_hr_basic load                       *)
MaxSamples == 9

LoadSample(x) == Load(RInt(x[1]), RInt(60), RInt(x[2]), RInt(3), NoZoneList)

LoadSeries ==
    {<< <<0, 50>>, <<1, 50>>, <<2, 50>>, <<3, 50>>, <<4, 50>>, <<5, 50>>, <<6, 50>>,
        <<7, 60>>, <<8, 70>>, <<9, 80>> >>,
     << <<0, 25>>, <<1, 25>>, <<20, 60>>, <<21, 60>>, <<22, 60>>, <<23, 60>>, <<24, 60>>,
        <<25, 60>>, <<26, 90>>, <<27, 60>> >>,
     << <<0, 0>>, <<3, 0>>, <<6, 0>>, <<9, 0>>, <<12, 0>>, <<15, 0>>, <<18, 0>>,
        <<21, 0>>, <<24, 30>>, <<27, 0>> >>}

LoadHistory(series, n, reversed) ==
    WithIds([i \in 1..n |-> LoadSample(series[IF reversed THEN n + 1 - i ELSE i])])

(* daily summaries: one record per calendar day *)
MaxDaily == 3

Daily(day, sleep, rhr, stress) ==
    [BaseDaily EXCEPT !.calendarDate = day, !.sleepingSeconds = sleep,
                      !.restingHeartRate = rhr, !.averageStressLevel = stress]

DailyFamily ==
    {Daily(RInt(c[1]), RInt(c[2]), RInt(c[3]), RInt(c[4])) :
        c \in {<<0, 25200, 50, 30>>, <<1, 28800, 48, 25>>, <<2, 21600, 53, 40>>,
               <<5, 28800, 47, 20>>, <<1, 25200, 50, 30>>}}
    \cup {Daily(RInt(0), RInt(28800), RNone, RInt(25)),
          Daily(RInt(2), RInt(25200), RInt(50), RNone),
          Daily(RInt(5), RNone, RText, RInt(35)),
          Daily(RInt(1), RInt(21600), RAbsent, RInt(45)),
          Daily(RNone, RInt(25200), RInt(55), RInt(30))}

DailyTables ==
    {T \in UNION {[1..n -> DailyFamily] : n \in 0..MaxDaily} :
        \A i, j \in 1..Len(T) : i # j => T[i].calendarDate # T[j].calendarDate}

(* the plots of pages/4_Correlations.py as <<x_col, y_col, y_col_is_next_day>>: *)
(* the curated ones over the modelled columns                                 *)
curated_plots ==
    {<<"averageStressLevel", "restingHeartRate", FALSE>>,
     <<"sleepingHours", "restingHeartRate", TRUE>>,
     <<"sleepingHours", "averageStressLevel", TRUE>>}

(* daily_df[col].nunique(dropna=True) *)
nunique(rows, col) ==
    Cardinality({rows[i][col] : i \in {j \in 1..Len(rows) : notna(rows[j][col])}})

(* the columns offered by the custom explorer *)
selectable_cols(f) ==
    {c \in daily_metric_cols \cap f.cols : nunique(f.rows, c) > 1}

(* the explorer's choices: any x, any y, next day's value only of another column *)
custom_plots(f) ==
    {c \in selectable_cols(f) \X selectable_cols(f) \X BOOLEAN : c[3] => c[2] # c[1]}

CorrelationChoices(f) == curated_plots \cup custom_plots(f)

(* runs around the month ends of the calendar, one undated run and a ride *)
SummaryRuns ==
    {ZoneRun(day, RInt(300), TDict("running")) : day \in {0, 30, 31, 59, 60}}
    \cup {ZoneRun(31, RInt(300), TDict("cycling")),
          [ZoneRun(0, RInt(300), TDict("running")) EXCEPT
              !.startTimeLocal = RNone, !.startTimeGMT = RNone]}

(* daily summaries with the -1 of a day without stress data, with missing  *)
(* and unparsable cells and with a missing step count                      *)
Stressed(day, stress, sleep, steps) ==
    [BaseDaily EXCEPT !.calendarDate = day, !.averageStressLevel = stress,
                      !.sleepingSeconds = sleep, !.totalSteps = steps]

StressFamily ==
    {Stressed(RInt(c[1]), RInt(c[2]), RInt(25200), RInt(8000)) :
        c \in {<<0, -1>>, <<1, 40>>, <<2, 60>>, <<7, -1>>, <<8, -1>>, <<31, 60>>}}
    \cup {Stressed(RInt(3), RNone, RNone, RNone),
          Stressed(RInt(4), RInt(50), RText, RInt(8000)),
          Stressed(RInt(5), RInt(-1), RInt(28800), RAbsent),
          Stressed(RNone, RInt(30), RInt(25200), RInt(8000))}

StressTables ==
    {T \in UNION {[1..n -> StressFamily] : n \in 0..MaxDaily} :
        \A i, j \in 1..Len(T) : i # j => T[i].calendarDate # T[j].calendarDate}

(* sleep entries: scored, with a score that is no dict, without a score,   *)
(* without a calendar date; get_sleep_data sets sleepStartTimestampGMT on  *)
(* every entry                                                             *)
Sleep(day, seconds, score) ==
    [BaseSleep EXCEPT !.calendarDate = day, !.sleepStartTimestampGMT = day,
                      !.durationInSeconds = seconds, !.overallSleepScore = score]

SleepFamily ==
    {Sleep(RInt(0), RInt(25200), ScoreDict(RInt(80))),
     Sleep(RInt(1), RInt(28800), ScoreDict(RInt(90))),
     Sleep(RInt(2), RText, ScoreEmptyDict),
     Sleep(RInt(3), RInt(21600), ScoreNone),
     Sleep(RInt(4), RNone, ScoreAbsent),
     Sleep(RNone, RInt(25200), ScoreDict(RInt(70))),
     [Sleep(RAbsent, RInt(25200), ScoreDict(RInt(60))) EXCEPT
         !.sleepStartTimestampGMT = RInt(5)]}

Hrv(day, type, value, status) ==
    [BaseHrv EXCEPT !.date = day, !.type = type, !.value = value, !.status = status]

HrvFamily ==
    {Hrv(RInt(0), "LAST_NIGHT_AVERAGE", RInt(45), RText),
     Hrv(RInt(1), "LAST_NIGHT_AVERAGE", RNone, RText),
     Hrv(RInt(1), "WEEKLY_AVERAGE", RInt(50), RText),
     Hrv(RInt(2), "LAST_NIGHT_AVERAGE", RInt(40), RAbsent),
     Hrv(RInt(3), "absent", RInt(40), RText),
     Hrv(RInt(4), "LAST_NIGHT_AVERAGE", RAbsent, RText)}

MaxNights == 2

(* the Garmin e-mail addresses typed in the sidebar, the date ranges of    *)
(* the session and the bound on the page requests of one behaviour         *)
Usernames ==
    {<<"a", ".", "b", "@", "x">>, <<"a", "_", "b", "@", "x">>, <<"c", "@", "x">>}

DateRanges == {<<0, 30>>, <<31, 59>>}

MaxRequests == 2

RequestArgs == [username : Usernames, range : DateRanges, force_refresh : BOOLEAN]

ScenarioTable ==
    WithIds(<<Run(RInt(4000), RInt(1500), RInt(1), RInt(1)),
              Run(RInt(10200), RInt(3300), RInt(2), RInt(2)),
              Run(RInt(21100), RInt(6600), RInt(3), RInt(3))>>)

(* ------------------------------ state ---------------------------------- *)
VARIABLES
    raw,          \* activities_raw: the table returned by garmin_utils.get_activities
    page,         \* the page script whose run produced the values below, or "none"
    df,           \* the normalized frame of that run
    running,      \* its frame of running activities
    prs,          \* the personal-records dict of that run
    raised,       \* whether that run ended in an exception
    zones,        \* user_hr_zone_definitions of that run
    zoned,        \* the rows classified by dominant zone
    pace_trends,  \* pace_per_zone_data
    time_in_zones,\* the time-in-zone table of that run and its resample rule
    daily_load_df,\* the daily load table of that run and its load_method
    daily_raw,    \* raw_daily: the table returned by garmin_utils.get_daily_summaries
    daily_df,     \* the processed daily summaries of that run
    correlation,  \* what create_correlation_plot showed in that run
    sleep_raw,    \* the table returned by garmin_utils.get_sleep_data
    hrv_raw,      \* the table returned by garmin_utils.get_hrv_data
    sleep_df,     \* the processed sleep table of that run
    hrv_df,       \* the processed HRV table of that run
    stress_plot,  \* the points of the stress trace of that run
    wellness,     \* wellness_aggregated of that run
    running_agg,  \* aggregated_running_data of that run
    files,        \* the parquet files under the data directory
    memo,         \* the entries of st.cache_data, by key
    api,          \* whether Garmin Connect answers, has no data or fails
    served,       \* what the last page request handed to its page
    requests      \* the number of page requests so far

inputs == <<raw, daily_raw, sleep_raw, hrv_raw>>

cache == <<files, memo, api, served, requests>>

vars == <<raw, page, df, running, prs, raised, zones, zoned, pace_trends,
          time_in_zones, daily_load_df, daily_raw, daily_df, correlation,
          sleep_raw, hrv_raw, sleep_df, hrv_df, stress_plot, wellness, running_agg,
          files, memo, api, served, requests>>

(* what a page other than the health overview and the summary leaves behind *)
NoHealth ==
    /\ sleep_df' = EmptyFrame /\ hrv_df' = EmptyFrame /\ stress_plot' = <<>>

NoSummary ==
    /\ wellness' = NoAggregate /\ running_agg' = NoAggregate

(* what a page that draws no such table leaves behind *)
NoTables ==
    /\ time_in_zones' = NoZoneTable
    /\ daily_load_df' = NoLoad
    /\ daily_df' = EmptyFrame
    /\ correlation' = NoPlot
    /\ NoHealth /\ NoSummary

NoActivityPage ==
    /\ df' = EmptyFrame /\ running' = EmptyFrame
    /\ prs' = <<>> /\ raised' = FALSE
    /\ zones' = <<>> /\ zoned' = <<>> /\ pace_trends' = {}
    /\ time_in_zones' = NoZoneTable
    /\ daily_load_df' = NoLoad

Locals0 ==
    /\ page = "none"
    /\ df = EmptyFrame /\ running = EmptyFrame
    /\ prs = <<>> /\ raised = FALSE
    /\ zones = <<>> /\ zoned = <<>> /\ pace_trends = {}
    /\ time_in_zones = NoZoneTable
    /\ daily_load_df = NoLoad
    /\ daily_df = EmptyFrame
    /\ correlation = NoPlot
    /\ sleep_df = EmptyFrame /\ hrv_df = EmptyFrame /\ stress_plot = <<>>
    /\ wellness = NoAggregate /\ running_agg = NoAggregate

(* nothing on disk, nothing memoized, no request yet *)
ColdCache ==
    /\ files = <<>> /\ memo = <<>>
    /\ api = "up"
    /\ served = NoResponse
    /\ requests = 0

(* a session that fetched no sleep and no HRV *)
NoNights == sleep_raw = <<>> /\ hrv_raw = <<>>

Init ==
    /\ \/ \E F \in Families, n \in 0..MaxActs : \E s \in [1..n -> F] : raw = WithIds(s)
       \/ raw = ScenarioTable
    /\ daily_raw = <<>>
    /\ NoNights /\ ColdCache
    /\ Locals0

(* the runs with zone times a running-performance page may find *)
InitPeriod ==
    /\ \E n \in 0..MaxActs : \E s \in [1..n -> ZoneTimeFamily] : raw = WithIds(s)
    /\ daily_raw = <<>>
    /\ NoNights /\ ColdCache
    /\ Locals0

(* the activities a training-load run may find *)
InitLoad ==
    /\ \/ \E n \in 0..MaxActs : \E s \in [1..n -> LoadFamily] : raw = WithIds(s)
       \/ \E series \in LoadSeries, n \in 0..MaxSamples, reversed \in BOOLEAN :
              raw = LoadHistory(series, n, reversed)
    /\ daily_raw = <<>>
    /\ NoNights /\ ColdCache
    /\ Locals0

(* the daily summaries a correlation run may find *)
InitCorr ==
    /\ raw = <<>>
    /\ daily_raw \in DailyTables
    /\ NoNights /\ ColdCache
    /\ Locals0

(* pages/P5_Personal_Records.py: calculate_personal_records_detailed *)
calculate_personal_records_detailed ==
    \E f \in process_general_activities_df(raw) :
        /\ page = "none"
        /\ page' = "P5_Personal_Records"
        /\ df' = f
        /\ running' = running_activities_detailed(f)
        /\ prs' = personal_records_detailed(running_activities_detailed(f))
        /\ raised' = FALSE
        /\ zones' = <<>> /\ zoned' = <<>> /\ pace_trends' = {}
        /\ NoTables
        /\ UNCHANGED <<inputs, cache>>

(* pages/5_Personal_Records.py: calculate_personal_records *)
calculate_personal_records ==
    \E f \in process_general_activities_df(raw) :
        LET res == personal_records_legacy(running_activities_legacy(f))
        IN  /\ page = "none"
            /\ page' = "5_Personal_Records"
            /\ df' = f
            /\ running' = running_activities_legacy(f)
            /\ prs' = res.prs
            /\ raised' = res.raised
            /\ zones' = <<>> /\ zoned' = <<>> /\ pace_trends' = {}
            /\ NoTables
            /\ UNCHANGED <<inputs, cache>>

(* pages/P2_Running_performance.py: load_activity_data, running_df, the    *)
(* time in zones per period chosen with the radio button and the pace      *)
(* trend by dominant zone for the zone bounds typed in the sidebar         *)
running_performance_p2 ==
    \E f \in local_process_activities_df(raw), z \in ZoneInputs,
       hr_zone_agg_period \in {"Weekly", "Monthly"} :
        LET defs == user_hr_zone_definitions(z)
            R == running_df_p2(f)
        IN  /\ page = "none"
            /\ page' = "P2_Running_performance"
            /\ df' = f
            /\ running' = R
            /\ zones' = defs
            /\ zoned' = zone_classified(R, defs)
            /\ pace_trends' = calculate_pace_per_zone_trend(R, defs)
            /\ time_in_zones' = time_in_zones_over_time(R, hr_zone_agg_period)
            /\ prs' = <<>> /\ raised' = FALSE
            /\ daily_load_df' = NoLoad /\ daily_df' = EmptyFrame /\ correlation' = NoPlot
            /\ NoHealth /\ NoSummary
            /\ UNCHANGED <<inputs, cache>>

(* pages/2_Running_performance.py: activities_processed_df, its running    *)
(* activities and zone_dist_weekly_df                                      *)
load_processed_activities ==
    /\ page = "none"
    /\ page' = "2_Running_performance"
    /\ df' = process_activities_df(raw)
    /\ running' = running_activities_df(process_activities_df(raw))
    /\ time_in_zones' =
           IF running_activities_df(process_activities_df(raw)).rows # <<>>
           THEN calculate_hr_zone_distribution(
                    running_activities_df(process_activities_df(raw)), "W")
           ELSE NoZoneTable
    /\ prs' = <<>> /\ raised' = FALSE
    /\ zones' = <<>> /\ zoned' = <<>> /\ pace_trends' = {}
    /\ daily_load_df' = NoLoad /\ daily_df' = EmptyFrame /\ correlation' = NoPlot
    /\ NoHealth /\ NoSummary
    /\ UNCHANGED <<inputs, cache>>

(* pages/3_Training_Load.py: the daily load under the selected method and  *)
(* its rolling acute and chronic means                                     *)
training_load ==
    \E load_method \in load_methods :
        LET f == process_activities_df(raw)
            daily == calculate_custom_training_load(f, load_method)
        IN  /\ page = "none"
            /\ page' = "3_Training_Load"
            /\ df' = f
            /\ daily_load_df' =
                   IF f.rows # <<>>
                   THEN [method |-> load_method, rows |-> rolling_metrics(daily)]
                   ELSE NoLoad
            /\ running' = EmptyFrame
            /\ prs' = <<>> /\ raised' = FALSE
            /\ zones' = <<>> /\ zoned' = <<>> /\ pace_trends' = {}
            /\ time_in_zones' = NoZoneTable
            /\ daily_df' = EmptyFrame /\ correlation' = NoPlot
            /\ NoHealth /\ NoSummary
            /\ UNCHANGED <<inputs, cache>>

(* pages/4_Correlations.py: load_correlation_page_data and one of the plots *)
correlations ==
    \E f \in process_daily_summary_for_plotting(daily_raw) :
      \E c \in CorrelationChoices(f) :
        /\ page = "none"
        /\ page' = "4_Correlations"
        /\ daily_df' = f
        /\ correlation' =
               IF f.rows # <<>> THEN create_correlation_plot(f, c[1], c[2], c[3])
               ELSE NoPlot
        /\ NoActivityPage
        /\ NoHealth /\ NoSummary
        /\ UNCHANGED <<inputs, cache>>

(* pages/P1_Health_overview.py: load_and_process_health_data, the daily   *)
(* snapshot, the stress trace and sleep duration against next day's        *)
(* resting HR; an exception ends the run where it is raised                *)
health_overview_p1 ==
    \E f \in process_daily_summary_for_plotting(daily_raw) :
        LET load_raises == process_hrv_raises(hrv_raw) \/ process_sleep_raises(sleep_raw)
            fails == load_raises \/ snapshot_raises(f)
        IN  /\ page = "none"
            /\ page' = "P1_Health_overview"
            /\ raised' = fails
            /\ hrv_df' = IF load_raises THEN EmptyFrame ELSE process_hrv_df(hrv_raw)
            /\ sleep_df' = IF load_raises THEN EmptyFrame ELSE process_sleep_df(sleep_raw)
            /\ daily_df' = IF load_raises THEN EmptyFrame ELSE f
            /\ stress_plot' = IF fails THEN <<>> ELSE stress_plot_data(f)
            /\ correlation' = IF fails THEN NoPlot ELSE corr_df_sleep_rhr(f)
            /\ df' = EmptyFrame /\ running' = EmptyFrame /\ prs' = <<>>
            /\ zones' = <<>> /\ zoned' = <<>> /\ pace_trends' = {}
            /\ time_in_zones' = NoZoneTable
            /\ daily_load_df' = NoLoad
            /\ NoSummary
            /\ UNCHANGED <<inputs, cache>>

(* pages/P0_Dashboard_Summary.py: load_summary_page_data, running_df and   *)
(* the running and wellness aggregations of the periods chosen with the    *)
(* radio buttons                                                           *)
dashboard_summary_p0 ==
    \E f \in process_general_activities_df(raw),
       agg_period_running \in {"Weekly", "Monthly"},
       wellness_agg_period \in {"Weekly", "Monthly"} :
        LET load_raises == seconds_division_raises(daily_raw)
            d == data_processing_daily_summary(daily_raw)
            fails == load_raises \/ wellness_raises(d)
        IN  /\ page = "none"
            /\ page' = "P0_Dashboard_Summary"
            /\ raised' = fails
            /\ df' = IF load_raises THEN EmptyFrame ELSE f
            /\ daily_df' = IF load_raises THEN EmptyFrame ELSE d
            /\ running' = IF load_raises THEN EmptyFrame ELSE running_df_p0(f)
            /\ running_agg' = IF load_raises THEN NoAggregate
                               ELSE aggregated_running_data(running_df_p0(f), agg_period_running)
            /\ wellness' = IF fails THEN NoAggregate
                            ELSE wellness_aggregated(d, wellness_agg_period)
            /\ prs' = <<>>
            /\ zones' = <<>> /\ zoned' = <<>> /\ pace_trends' = {}
            /\ time_in_zones' = NoZoneTable
            /\ daily_load_df' = NoLoad
            /\ correlation' = NoPlot
            /\ NoHealth
            /\ UNCHANGED <<inputs, cache>>

(* a script run is over: its locals are gone and the next run of any page *)
(* starts from the fetched table alone                                   *)
rerun ==
    /\ page # "none"
    /\ page' = "none"
    /\ df' = EmptyFrame
    /\ running' = EmptyFrame
    /\ prs' = <<>> /\ raised' = FALSE
    /\ zones' = <<>> /\ zoned' = <<>> /\ pace_trends' = {}
    /\ NoTables
    /\ UNCHANGED <<inputs, cache>>

Next ==
    \/ rerun
    \/ calculate_personal_records_detailed
    \/ calculate_personal_records
    \/ running_performance_p2
    \/ load_processed_activities

Spec == Init /\ [][Next]_vars

(* the two running-performance pages over the runs with zone times *)
NextPeriod ==
    \/ rerun
    \/ running_performance_p2
    \/ load_processed_activities

SpecPeriod == InitPeriod /\ [][NextPeriod]_vars

(* the training-load page over its own histories *)
NextLoad ==
    \/ rerun
    \/ training_load

SpecLoad == InitLoad /\ [][NextLoad]_vars

(* the two correlation pages over the daily summaries *)
NextCorr ==
    \/ rerun
    \/ correlations
    \/ health_overview_p1

SpecCorr == InitCorr /\ [][NextCorr]_vars

(* the summary, health, correlation and running pages over one session's  *)
(* runs, daily summaries, sleep entries or HRV summaries                  *)
InitSummary ==
    /\ \/ /\ \E n \in 0..MaxActs : \E s \in [1..n -> SummaryRuns] : raw = WithIds(s)
          /\ daily_raw = <<>> /\ NoNights
       \/ /\ daily_raw \in StressTables
          /\ raw = <<>> /\ NoNights
       \/ /\ \E n \in 1..MaxNights : sleep_raw \in [1..n -> SleepFamily]
          /\ raw = <<>> /\ daily_raw = <<>> /\ hrv_raw = <<>>
       \/ /\ \E n \in 1..MaxNights : hrv_raw \in [1..n -> HrvFamily]
          /\ raw = <<>> /\ daily_raw = <<>> /\ sleep_raw = <<>>
    /\ ColdCache
    /\ Locals0

NextSummary ==
    \/ rerun
    \/ dashboard_summary_p0
    \/ health_overview_p1
    \/ correlations
    \/ running_performance_p2

SpecSummary == InitSummary /\ [][NextSummary]_vars

(* the page locals stay as they are while the cache is exercised *)
page_locals == <<page, df, running, prs, raised, zones, zoned, pace_trends,
                 time_in_zones, daily_load_df, daily_df, correlation,
                 sleep_df, hrv_df, stress_plot, wellness, running_agg>>

(* a page is requested: its loader is called with the session's user and   *)
(* date range and with the Force Refresh checkbox of app.py (the           *)
(* personal-records pages pass their own checkbox)                         *)
page_request ==
    \E loader \in page_loaders, args \in RequestArgs :
        LET res == call_loader(files, memo, loader, args, api)
        IN  /\ requests < MaxRequests
            /\ requests' = requests + 1
            /\ files' = res.files
            /\ memo' = res.memo
            /\ served' = res.served
            /\ UNCHANGED <<api, inputs, page_locals>>

(* python garmin_utils.py: the five fetchers for the last week, without    *)
(* force refresh                                                           *)
garmin_utils_main ==
    \E username \in Usernames :
        LET args == [username |-> username, range |-> <<today - 7, today - 1>>,
                     force_refresh |-> FALSE]
            harness == Loader("__main__",
                              <<"activities", "hrv", "sleep", "daily_summary", "body_battery">>,
                              FALSE, {}, <<>>)
            res == call_loader(files, memo, harness, args, api)
        IN  /\ requests < MaxRequests
            /\ requests' = requests + 1
            /\ files' = res.files
            /\ memo' = res.memo
            /\ served' = res.served
            /\ UNCHANGED <<api, inputs, page_locals>>

(* Garmin Connect starts or stops answering, or has no data for the range *)
api_changes ==
    /\ \E a \in {"up", "no_data", "down"} \ {api} : api' = a
    /\ UNCHANGED <<files, memo, served, requests, inputs, page_locals>>

(* the ttl of an entry of st.cache_data runs out *)
memo_expires ==
    /\ \E key \in DOMAIN memo : memo' = [k \in DOMAIN memo \ {key} |-> memo[k]]
    /\ UNCHANGED <<files, api, served, requests, inputs, page_locals>>

(* page requests of several users over one data directory *)
InitCache ==
    /\ raw = <<>> /\ daily_raw = <<>>
    /\ NoNights /\ ColdCache
    /\ Locals0

NextCache ==
    \/ page_request
    \/ garmin_utils_main
    \/ api_changes
    \/ memo_expires

SpecCache == InitCache /\ [][NextCache]_vars

(* ======================= properties ===================================== *)
RowsOf(frame) == {frame.rows[i] : i \in 1..Len(frame.rows)}

(* what each criterion of the personal records asks of an activity, stated *)
(* on the activity's own fields, in meters and seconds                     *)
PaceKey(s)    == "Fastest Pace " \o s
CadenceKey(s) == "Highest Avg Cadence " \o s
HRKey(s)      == "Lowest Avg HR " \o s

BandSuffixes == {"(<5km)", "(5-10km)", "(10-15km)", "(15km-HM)", "(HM+)"}

(* closed band edges in meters *)
BandMeters(s) ==
    CASE s = "(<5km)"    -> <<500, 4990>>
      [] s = "(5-10km)"  -> <<5000, 9990>>
      [] s = "(10-15km)" -> <<10000, 14990>>
      [] s = "(15km-HM)" -> <<15000, 21300>>
      [] s = "(HM+)"     -> <<21310, 1000000>>

InMeters(r, b) == Ge(r.distance_meters, I(b[1])) /\ Le(r.distance_meters, I(b[2]))

InBand(r, s) == InMeters(r, BandMeters(s))

(* C1: every normalized activity has a pace exactly when its distance and  *)
(* its duration are both positive, the pace times the distance in km is    *)
(* the duration in minutes, and a pace is never zero or negative.          *)
C1_PaceDefined ==
    \A r \in RowsOf(df) :
        /\ notna(r.pace_min_per_km)
              <=> (Gt(r.distance_meters, I(0)) /\ Gt(r.duration_seconds, I(0)))
        /\ notna(r.pace_min_per_km) =>
              /\ Mul(r.pace_min_per_km, Q(r.distance_meters.n, 1000 * r.distance_meters.d))
                    = Q(r.duration_seconds.n, 60 * r.duration_seconds.d)
              /\ r.pace_min_per_km = Div(r.duration_minutes, r.distance_km)
              /\ Gt(r.pace_min_per_km, I(0))

(* a run of every normalizer meets both cases: a row with a pace and a row *)
(* with positive distance whose duration is zero, negative or unparsable   *)
C1_Witness ==
    /\ page \in {"P5_Personal_Records", "P2_Running_performance", "2_Running_performance"}
    /\ \E r \in RowsOf(df) : notna(r.pace_min_per_km)
    /\ \E r \in RowsOf(df) : Gt(r.distance_meters, I(0)) /\ ~notna(r.pace_min_per_km)

SegmentKeys   == DOMAIN garmin_segment_prs_config
EventKeys     == DOMAIN full_run_event_prs_config
MilestoneKeys == DOMAIN general_milestone_config

AllDetailedKeys ==
    SegmentKeys \cup EventKeys \cup MilestoneKeys \cup {specific_hr_pace_label}
    \cup {PaceKey(s) : s \in BandSuffixes} \cup {CadenceKey(s) : s \in BandSuffixes}
    \cup {HRKey(s) : s \in BandSuffixes}

SuffixOf(k) == CHOOSE s \in BandSuffixes : k \in {PaceKey(s), CadenceKey(s), HRKey(s)}

(* closed tolerance band of a full-event target, in meters *)
EventMeters(k) ==
    CASE k = "Fastest 5km (Full Event)"  -> <<4900, 5150>>
      [] k = "Fastest 10km (Full Event)" -> <<9800, 10250>>
      [] k = "Fastest 15km (Full Event)" -> <<14750, 15300>>
      [] k = "Fastest Half Marathon (Full Event)" -> <<20750, 21500>>

(* the field a criterion ranks, and whether the largest value wins *)
CriterionCol(k) ==
    CASE k \in SegmentKeys -> garmin_segment_prs_config[k]
      [] k \in EventKeys -> "duration_seconds"
      [] k \in MilestoneKeys -> general_milestone_config[k].col
      [] k = specific_hr_pace_label -> "averageHR"
      [] k \in {PaceKey(s) : s \in BandSuffixes} -> "pace_min_per_km"
      [] k \in {CadenceKey(s) : s \in BandSuffixes} -> "avgCadence"
      [] k \in {HRKey(s) : s \in BandSuffixes} -> "averageHR"

LargestWins(k) == k \in MilestoneKeys \cup {CadenceKey(s) : s \in BandSuffixes}

(* the activities a criterion ranks, as the code selects them *)
Qualifies(k, r) ==
    CASE k \in SegmentKeys -> Gt(r[CriterionCol(k)], I(0))
      [] k \in EventKeys -> InMeters(r, EventMeters(k)) /\ Gt(r.duration_seconds, I(0))
      [] k \in {"Fastest Speed", "Peak Power", "Highest VO2 Max (Activity)"} ->
            Gt(r[CriterionCol(k)], I(0))
      [] k \in {"Longest Run", "Max Elevation Gain (Run)"} -> notna(r[CriterionCol(k)])
      [] k = specific_hr_pace_label ->
            /\ InMeters(r, <<9800, 10200>>)
            /\ Ge(r.pace_min_per_km, I(5)) /\ Le(r.pace_min_per_km, Q(11, 2))
            /\ Gt(r.averageHR, I(0))
      [] OTHER -> InBand(r, SuffixOf(k)) /\ Gt(r[CriterionCol(k)], I(0))

Qualifying(k) == {r \in RowsOf(running) : Qualifies(k, r)}

(* r's value is at least as good as q's for criterion k *)
AsGood(k, r, q) ==
    IF LargestWins(k) THEN Ge(r[CriterionCol(k)], q[CriterionCol(k)])
    ELSE Le(r[CriterionCol(k)], q[CriterionCol(k)])

(* the activity a record was taken from *)
Winner(k) == CHOOSE r \in RowsOf(running) : r.activityId = prs[k].id

Detailed == page = "P5_Personal_Records"

(* C2: for every criterion, the activity selected has the extremal value,  *)
(* and among the qualifying activities that share that value it has the    *)
(* earliest date.                                                          *)
C2_EarliestAmongTies ==
    Detailed =>
        \A k \in DOMAIN prs :
            /\ Winner(k) \in Qualifying(k)
            /\ \A r \in Qualifying(k) :
                  /\ AsGood(k, Winner(k), r)
                  /\ (r[CriterionCol(k)] = Winner(k)[CriterionCol(k)] /\ notna(r.date))
                        => (notna(Winner(k).date) /\ Le(Winner(k).date, r.date))

(* two runs at 5.00 min/km on different days, the later one first in the   *)
(* input, and the record goes to the earlier one                           *)
C2_Witness ==
    /\ Detailed
    /\ PaceKey("(5-10km)") \in DOMAIN prs
    /\ prs[PaceKey("(5-10km)")].value = I(5)
    /\ \E r \in Qualifying(PaceKey("(5-10km)")) :
          /\ r.pace_min_per_km = I(5)
          /\ Lt(Winner(PaceKey("(5-10km)")).date, r.date)
          /\ r.activityId < prs[PaceKey("(5-10km)")].id

(* C3 as stated: no key of a personal-record result maps to a null value   *)
(* or placeholder.                                                         *)
C3_NoNullEntry ==
    \A k \in DOMAIN prs : ~prs[k].isNone /\ notna(prs[k].value)

(* C3 as amended: the result of calculate_personal_records_detailed has a  *)
(* key exactly for the criteria with a qualifying activity, none of them   *)
(* null; the older calculate_personal_records, whenever it returns for a   *)
(* non-empty set of runs, carries the two placeholder keys mapped to None  *)
(* and no other null.                                                      *)
C3_EntriesOnlyWhenQualified ==
    /\ Detailed =>
          /\ DOMAIN prs \subseteq AllDetailedKeys
          /\ \A k \in AllDetailedKeys :
                /\ k \in DOMAIN prs <=> Qualifying(k) # {}
                /\ k \in DOMAIN prs => (~prs[k].isNone /\ notna(prs[k].value))
    /\ (page = "5_Personal_Records" /\ ~raised /\ running.rows # <<>>) =>
          /\ {"fastest_5k_calculated", "fastest_10k_calculated"} \subseteq DOMAIN prs
          /\ \A k \in DOMAIN prs :
                prs[k].isNone <=> k \in {"fastest_5k_calculated", "fastest_10k_calculated"}

(* runs exist, some records are found, and the 1 km segment record is left *)
(* out although a run carries a (non-positive) value for it                *)
C3_Witness ==
    /\ Detailed
    /\ DOMAIN prs # {}
    /\ "Fastest 1km (Segment)" \notin DOMAIN prs
    /\ \E r \in RowsOf(running) : notna(r.fastestSplit_1000)

(* C4: every running activity with a positive distance lies in exactly one *)
(* of the five distance bands.                                             *)
C4_BandsPartition ==
    Detailed =>
        \A r \in RowsOf(running) :
            Gt(r.distance_meters, I(0)) =>
                Cardinality({s \in DOMAIN distance_categories_config :
                                in_distance(r, distance_categories_config[s])}) = 1

(* C5: per distance band the 'Fastest Pace' record exists exactly when the *)
(* band holds an activity with a positive pace and is the smallest such    *)
(* pace; for runs of 4.0, 10.2 and 21.1 km in 25, 55 and 110 minutes the   *)
(* (<5km) record is the 4.0 km run at 6.25 min/km, the 21.1 km run is the  *)
(* (15km-HM) record and there is no (HM+) record.                          *)
C5_FastestPacePerBand ==
    Detailed =>
        /\ \A s \in BandSuffixes :
              LET cand == {r \in RowsOf(running) :
                              InBand(r, s) /\ Gt(r.pace_min_per_km, I(0))}
              IN  /\ PaceKey(s) \in DOMAIN prs <=> cand # {}
                  /\ PaceKey(s) \in DOMAIN prs =>
                        /\ \E r \in cand : /\ prs[PaceKey(s)].value = r.pace_min_per_km
                                           /\ prs[PaceKey(s)].id = r.activityId
                        /\ \A r \in cand : Le(prs[PaceKey(s)].value, r.pace_min_per_km)
        /\ raw = ScenarioTable =>
              /\ PaceKey("(<5km)") \in DOMAIN prs
              /\ prs[PaceKey("(<5km)")].value = Q(625, 100)
              /\ prs[PaceKey("(<5km)")].id = 1
              /\ PaceKey("(15km-HM)") \in DOMAIN prs
              /\ prs[PaceKey("(15km-HM)")].id = 3
              /\ PaceKey("(HM+)") \notin DOMAIN prs

(* the records of the three-run scenario *)
C5_Witness == Detailed /\ raw = ScenarioTable /\ PaceKey("(5-10km)") \notin DOMAIN prs

(* C6: per full-event target the record exists exactly when an activity of *)
(* positive duration lies in the target's tolerance band and is the        *)
(* smallest such duration; the tolerance bands are pairwise disjoint and   *)
(* no activity is a candidate for two targets.                             *)
C6_FullEventBest ==
    /\ \A k1, k2 \in EventKeys :
          k1 # k2 => \/ Lt(full_run_event_prs_config[k1][2], full_run_event_prs_config[k2][1])
                     \/ Lt(full_run_event_prs_config[k2][2], full_run_event_prs_config[k1][1])
    /\ Detailed =>
          /\ \A r \in RowsOf(running) :
                Cardinality({k \in EventKeys :
                                in_distance(r, full_run_event_prs_config[k])}) <= 1
          /\ \A k \in EventKeys :
                LET cand == {r \in RowsOf(running) :
                                InMeters(r, EventMeters(k)) /\ Gt(r.duration_seconds, I(0))}
                IN  /\ k \in DOMAIN prs <=> cand # {}
                    /\ k \in DOMAIN prs =>
                          /\ \E r \in cand : /\ prs[k].value = r.duration_seconds
                                             /\ prs[k].id = r.activityId
                          /\ \A r \in cand : Le(prs[k].value, r.duration_seconds)

(* two runs in the 5 km tolerance band with different durations *)
C6_Witness ==
    /\ Detailed
    /\ "Fastest 5km (Full Event)" \in DOMAIN prs
    /\ \E r \in RowsOf(running) :
          /\ InMeters(r, EventMeters("Fastest 5km (Full Event)"))
          /\ Gt(r.duration_seconds, prs["Fastest 5km (Full Event)"].value)

(* C7: per nominal split distance the segment record exists exactly when   *)
(* an activity has a positive value of that fastest-split field and is the *)
(* smallest positive value; an absent, zero or negative value never wins.  *)
C7_SegmentBest ==
    Detailed =>
        \A k \in SegmentKeys :
            LET col == garmin_segment_prs_config[k]
                cand == {r \in RowsOf(running) : Gt(r[col], I(0))}
            IN  /\ k \in DOMAIN prs <=> cand # {}
                /\ k \in DOMAIN prs =>
                      /\ Gt(prs[k].value, I(0))
                      /\ \E r \in cand : /\ prs[k].value = r[col]
                                         /\ prs[k].id = r.activityId
                      /\ \A r \in cand : Le(prs[k].value, r[col])

(* a 1 km record is found although another run carries a zero or negative *)
(* value that is smaller                                                  *)
C7_Witness ==
    /\ Detailed
    /\ "Fastest 1km (Segment)" \in DOMAIN prs
    /\ \E r \in RowsOf(running) :
          Lt(r.fastestSplit_1000, prs["Fastest 1km (Segment)"].value)

(* C8 as stated: every general milestone other than 'Longest Run' reports  *)
(* a strictly positive value.                                              *)
C8_AllButLongestRunPositive ==
    Detailed =>
        \A k \in (MilestoneKeys \ {"Longest Run"}) \cap DOMAIN prs :
            Gt(Winner(k)[CriterionCol(k)], I(0))

PositiveOnlyMilestones == {"Fastest Speed", "Peak Power", "Highest VO2 Max (Activity)"}

(* C8 as amended: max speed, max power and max VO2max are taken only among *)
(* strictly positive values; 'Longest Run' and 'Max Elevation Gain (Run)'  *)
(* are taken among all non-missing values, zero and negative included.     *)
C8_PositiveOnlyMilestones ==
    Detailed =>
        /\ \A k \in PositiveOnlyMilestones :
              LET cand == {r \in RowsOf(running) : Gt(r[CriterionCol(k)], I(0))}
              IN  /\ k \in DOMAIN prs <=> cand # {}
                  /\ k \in DOMAIN prs =>
                        /\ Gt(prs[k].value, I(0))
                        /\ Winner(k) \in cand
                        /\ \A r \in cand : Ge(prs[k].value, r[CriterionCol(k)])
        /\ \A k \in MilestoneKeys \ PositiveOnlyMilestones :
              LET cand == {r \in RowsOf(running) : notna(r[CriterionCol(k)])}
              IN  /\ k \in DOMAIN prs <=> cand # {}
                  /\ k \in DOMAIN prs =>
                        \A r \in cand : Ge(prs[k].value, r[CriterionCol(k)])

(* a run with zero elevation gain holds the elevation record while the run *)
(* with zero maximum speed holds no speed record                           *)
C8_Witness ==
    /\ Detailed
    /\ "Max Elevation Gain (Run)" \in DOMAIN prs
    /\ Le(prs["Max Elevation Gain (Run)"].value, I(0))
    /\ "Fastest Speed" \notin DOMAIN prs
    /\ \E r \in RowsOf(running) : notna(r.maxSpeed)

ZonePage == page = "P2_Running_performance"

ZonedRows == {zoned[i] : i \in 1..Len(zoned)}

(* the zones whose closed bracket holds the heart rate *)
Brackets(hr) == {i \in 1..Len(zones) : Le(zones[i][2], hr) /\ Le(hr, zones[i][3])}

ExampleZones ==
    << <<"Zone 1", I(0), I(120)>>, <<"Zone 2 (Easy)", I(121), I(145)>>,
       <<"Zone 3 (Moderate/Tempo)", I(146), I(160)>>,
       <<"Zone 4 (Threshold/Hard)", I(161), I(175)>>,
       <<"Zone 5 (Max Effort)", I(176), I(220)>> >>

(* the classified runs behind one row of the pace table *)
Contributors(g) ==
    {r \in ZonedRows :
        /\ r.primary_zone_by_avg_hr = g.primary_zone_by_avg_hr
        /\ notna(r.pace_min_per_km) /\ notna(r.date)
        /\ r.date.n - (r.date.n % 7) = g.date.n}

RECURSIVE PaceSum(_)
PaceSum(S) ==
    IF S = {} THEN I(0)
    ELSE LET r == CHOOSE x \in S : TRUE
         IN  Add(r.pace_min_per_km, PaceSum(S \ {r}))

(* C9: the dominant zone of an activity is a zone whose closed bracket     *)
(* holds its average HR, the only such zone when exactly one bracket holds *)
(* it (150 under Z3 = 146..160 gives zone 3); it is None exactly when the  *)
(* average HR is absent or in no bracket, and the pace table has no row    *)
(* for None: every row is the mean pace of runs classified in its zone.    *)
C9_DominantZone ==
    ZonePage =>
        /\ \A r \in ZonedRows :
              /\ r.primary_zone_by_avg_hr = "None" <=> Brackets(r.avgHR) = {}
              /\ ~notna(r.avgHR) => r.primary_zone_by_avg_hr = "None"
              /\ r.primary_zone_by_avg_hr # "None" =>
                    \E i \in Brackets(r.avgHR) : zones[i][1] = r.primary_zone_by_avg_hr
              /\ (zones = ExampleZones /\ r.avgHR = I(150)) =>
                    r.primary_zone_by_avg_hr = "Zone 3 (Moderate/Tempo)"
        /\ \A g \in pace_trends :
              /\ g.primary_zone_by_avg_hr # "None"
              /\ Contributors(g) # {}
              /\ Mul(g.pace_min_per_km, I(Cardinality(Contributors(g))))
                    = PaceSum(Contributors(g))

(* a run at 150 bpm in zone 3 next to a run without average HR, which is   *)
(* None and in no row of the pace table                                    *)
C9_Witness ==
    /\ ZonePage
    /\ zones = ExampleZones
    /\ \E r \in ZonedRows :
          r.avgHR = I(150) /\ r.primary_zone_by_avg_hr = "Zone 3 (Moderate/Tempo)"
    /\ \E r \in ZonedRows :
          /\ ~notna(r.avgHR) /\ r.primary_zone_by_avg_hr = "None"
          /\ notna(r.pace_min_per_km) /\ notna(r.date)
    /\ Cardinality(pace_trends) = 1

(* C10 as stated: an average HR at or above zone 5's minimum (and in no    *)
(* earlier zone's bracket) is zone 5, however high.                        *)
C10_Zone5Unbounded ==
    ZonePage =>
        \A r \in ZonedRows :
            (Ge(r.avgHR, zones[5][2]) /\ Brackets(r.avgHR) \cap (1..4) = {})
                => r.primary_zone_by_avg_hr = zones[5][1]

(* C10 as amended: zone 5 ends at 220 bpm; an average HR from zone 5's     *)
(* minimum to 220 that is in no earlier zone's bracket is zone 5, and an   *)
(* average HR above 220 is in no zone.                                     *)
C10_Zone5UpTo220 ==
    ZonePage =>
        /\ zones[5][3] = I(220)
        /\ \A r \in ZonedRows :
              /\ Gt(r.avgHR, I(220)) => r.primary_zone_by_avg_hr = "None"
              /\ (/\ Ge(r.avgHR, zones[5][2]) /\ Le(r.avgHR, I(220))
                  /\ Brackets(r.avgHR) \cap (1..4) = {})
                    => r.primary_zone_by_avg_hr = zones[5][1]

(* 220 bpm is zone 5 and 221 bpm is in no zone *)
C10_Witness ==
    /\ ZonePage
    /\ \E r \in ZonedRows : r.avgHR = I(220) /\ r.primary_zone_by_avg_hr = zones[5][1]
    /\ \E r \in ZonedRows : r.avgHR = I(221) /\ r.primary_zone_by_avg_hr = "None"

(* ------------------- time in zones per period (C11, C12) ---------------- *)
WeeklyTable == time_in_zones.rule \in {"W-MON", "W"}

TableRows == {time_in_zones.rows[i] : i \in 1..Len(time_in_zones.rows)}

(* the running activities of the run that carry a date *)
DatedRuns == SelectSeq(running.rows, LAMBDA r : notna(r.date))

MondayOnOrBefore(d) == CHOOSE m \in (d - 6)..d : m % 7 = 0

SundayOnOrAfter(d) == CHOOSE m \in d..(d + 6) : m % 7 = 6

(* minutes of zone z over the dated runs of the days lo..hi *)
MinutesBetween(lo, hi, z) ==
    LET sel == SelectSeq(DatedRuns, LAMBDA r : lo <= r.date.n /\ r.date.n <= hi)
    IN  SumSeq([i \in 1..Len(sel) |-> sel[i].time_in_zone_minutes[z]])

(* the table has, for every dated run, a row labelled with the Monday on   *)
(* or before its day, and each row labelled m holds the minutes of the     *)
(* runs of the days m..m+6, m being a Monday                               *)
MondayLabelled ==
    /\ \A i \in 1..Len(DatedRuns) :
          \E t \in TableRows : t.date = I(MondayOnOrBefore(DatedRuns[i].date.n))
    /\ \A t \in TableRows :
          /\ t.date.n % 7 = 0
          /\ \A z \in 1..5 : t.minutes[z] = MinutesBetween(t.date.n, t.date.n + 6, z)

(* the same weeks, each labelled with the Sunday that ends it *)
SundayLabelled ==
    /\ \A i \in 1..Len(DatedRuns) :
          \E t \in TableRows : t.date = I(SundayOnOrAfter(DatedRuns[i].date.n))
    /\ \A t \in TableRows :
          /\ t.date.n % 7 = 6
          /\ \A z \in 1..5 : t.minutes[z] = MinutesBetween(t.date.n - 6, t.date.n, z)

(* C11 as stated: every weekly time-in-zone table sums an activity dated d *)
(* into the bucket labelled with the Monday on or before d.                *)
C11_WeeklyMondayLabelled ==
    WeeklyTable => MondayLabelled

(* C11 as amended: the weekly table of pages/P2_Running_performance.py     *)
(* ('W-MON', label and closed left) sums an activity dated d into the      *)
(* bucket labelled with the Monday on or before d; the weekly table of the *)
(* older pages/2_Running_performance.py (period 'W') holds the same        *)
(* Monday-to-Sunday weeks but labels each with the Sunday on or after d.   *)
C11_WeeklyBuckets ==
    /\ (page = "P2_Running_performance" /\ WeeklyTable) =>
          (time_in_zones.rule = "W-MON" /\ MondayLabelled)
    /\ (page = "2_Running_performance" /\ WeeklyTable) =>
          (time_in_zones.rule = "W" /\ SundayLabelled)

(* a Sunday run and the next day's Monday run in the weekly table of the   *)
(* newer page: the first under Monday day 0, the second under Monday day 7 *)
C11_Witness ==
    /\ page = "P2_Running_performance"
    /\ time_in_zones.rule = "W-MON"
    /\ \E i, j \in 1..Len(DatedRuns) :
          DatedRuns[i].date = I(6) /\ DatedRuns[j].date = I(7)
    /\ \E t, u \in TableRows :
          /\ t.date = I(0) /\ u.date = I(7)
          /\ Gt(t.minutes[1], I(0)) /\ Gt(u.minutes[1], I(0))

(* the calendar months of the day numbers, as <<first day, last day>> *)
CalendarMonths == {<<0, 30>>, <<31, 59>>, <<60, 90>>, <<91, 120>>, <<121, 151>>}

(* the periods of the table's rule, each with the labels a row for it may carry *)
Periods ==
    IF time_in_zones.rule = "ME"
    THEN {[lo |-> m[1], hi |-> m[2], labels |-> (m[1] - 1)..m[2]] : m \in CalendarMonths}
    ELSE {[lo |-> 7 * w, hi |-> 7 * w + 6, labels |-> {7 * w, 7 * w + 6}] : w \in 0..21}

RunsIn(P) == {i \in 1..Len(DatedRuns) : P.lo <= DatedRuns[i].date.n /\ DatedRuns[i].date.n <= P.hi}

(* C12: in every time-in-zone table, each week or month from that of the    *)
(* earliest activity to that of the latest has a row, and a week or month   *)
(* without activity has a row whose five zone minutes are all 0.            *)
C12_EveryPeriodPresent ==
    time_in_zones.rule # "none" =>
        \A P \in Periods :
            (/\ \E i \in 1..Len(DatedRuns) : DatedRuns[i].date.n <= P.hi
             /\ \E i \in 1..Len(DatedRuns) : DatedRuns[i].date.n >= P.lo)
            => /\ \E t \in TableRows : t.date.n \in P.labels
               /\ RunsIn(P) = {} =>
                     \E t \in TableRows :
                         /\ t.date.n \in P.labels
                         /\ \A z \in 1..5 : t.minutes[z] = I(0)

(* the weekly tables alone have a row for every week of the range, all     *)
(* zero when the week has no activity                                      *)
C12_EveryWeekPresent ==
    WeeklyTable => C12_EveryPeriodPresent

(* ----------------------- daily training load (C13-C15) ------------------ *)
LoadPage(method) == page = "3_Training_Load" /\ daily_load_df.method = method

DailyRows == {daily_load_df.rows[i] : i \in 1..Len(daily_load_df.rows)}

(* the activities of the processed frame dated d *)
ActivitiesOn(d) == SelectSeq(df.rows, LAMBDA r : r.date = d)

DatesOfActivities == {df.rows[i].date : i \in 1..Len(df.rows)} \ {NaN}

HasBothOperands(r) == notna(r.duration_minutes) /\ notna(r.avgHR)

BasicLoadOn(d) ==
    LET sel == SelectSeq(ActivitiesOn(d), HasBothOperands)
    IN  SumSeq([i \in 1..Len(sel) |-> Mul(sel[i].duration_minutes, sel[i].avgHR)])

(* C13: under duration_hr_basic a date has a row exactly when one of its    *)
(* activities has both a duration and an average HR, and the row's load is  *)
(* the sum of duration_minutes x avg_hr over those activities.              *)
C13_BasicDailyLoad ==
    LoadPage("duration_hr_basic") =>
        /\ \A t \in DailyRows :
              /\ \E i \in 1..Len(df.rows) :
                    df.rows[i].date = t.date /\ HasBothOperands(df.rows[i])
              /\ t.custom_load = BasicLoadOn(t.date)
        /\ \A d \in DatesOfActivities :
              (\E i \in 1..Len(ActivitiesOn(d)) : HasBothOperands(ActivitiesOn(d)[i]))
                  => \E t \in DailyRows : t.date = d
        /\ \A i, j \in 1..Len(daily_load_df.rows) :
              i # j => daily_load_df.rows[i].date # daily_load_df.rows[j].date

(* two activities on different dates, one of them without an average HR:   *)
(* only the other one's date has a row                                     *)
C13_Witness ==
    /\ LoadPage("duration_hr_basic")
    /\ Len(df.rows) = 2
    /\ \E i, j \in 1..2 :
          /\ HasBothOperands(df.rows[i]) /\ notna(df.rows[i].date)
          /\ ~notna(df.rows[j].avgHR) /\ notna(df.rows[j].duration_minutes)
          /\ notna(df.rows[j].date) /\ df.rows[j].date # df.rows[i].date
          /\ DailyRows = {r \in DailyRows : r.date = df.rows[i].date}
          /\ \E t \in DailyRows : Gt(t.custom_load, I(0))

(* minutes_in_zone_i x i summed over the five zones of one activity *)
ZoneWeighted(r) ==
    SumSeq([z \in 1..5 |-> Mul(fillna0(r.time_in_zone_minutes[z]), I(z))])

TrimpOn(d) ==
    SumSeq([i \in 1..Len(ActivitiesOn(d)) |-> ZoneWeighted(ActivitiesOn(d)[i])])

(* C14: under trimp_edwards every date with an activity has a row, whose    *)
(* load is the sum over that date's activities of the zone-weighted minutes *)
(* (0 for an activity without zone data), whatever else the activity lacks. *)
C14_TrimpFromZonesOnly ==
    LoadPage("trimp_edwards") =>
        \A d \in DatesOfActivities :
            \E t \in DailyRows : t.date = d /\ t.custom_load = TrimpOn(d)

(* the part of C14 the code keeps: among activities that have a duration    *)
(* and an average HR, the load is the zone-weighted minutes alone           *)
C14_TrimpOfKeptActivities ==
    LoadPage("trimp_edwards") =>
        \A t \in DailyRows :
            LET sel == SelectSeq(ActivitiesOn(t.date), HasBothOperands)
            IN  t.custom_load = SumSeq([i \in 1..Len(sel) |-> ZoneWeighted(sel[i])])

TrainingEffectOn(d) ==
    SumSeq([i \in 1..Len(ActivitiesOn(d)) |->
               fillna0(ActivitiesOn(d)[i].aerobicTrainingEffect)])

(* C15: under aerobic_te_sum every date with an activity has a row, whose   *)
(* load is the sum of the aerobic training effect over all activities of    *)
(* the date, an absent training effect counting as 0.                       *)
C15_TrainingEffectSum ==
    LoadPage("aerobic_te_sum") =>
        \A d \in DatesOfActivities :
            \E t \in DailyRows : t.date = d /\ t.custom_load = TrainingEffectOn(d)

(* ------------------- rolling loads and their ratio (C16-C18) ------------ *)
TrainingLoadPage == page = "3_Training_Load"

LoadRows == daily_load_df.rows

(* mean of the loads dated within the 7 calendar days ending at row i's date *)
CalendarAcute(i) ==
    LET sel == SelectSeq(SubSeq(LoadRows, 1, i),
                         LAMBDA t : t.date.n >= LoadRows[i].date.n - 6)
    IN  Mean([j \in 1..Len(sel) |-> sel[j].custom_load])

(* acwr is acute / chronic where chronic is defined and not zero, else 0 *)
AcwrIsRatioOrZero ==
    \A i \in 1..Len(LoadRows) :
        LET t == LoadRows[i]
        IN  /\ (notna(t.chronic_load_28d) /\ t.chronic_load_28d.n # 0)
                  => t.acwr = Div(t.acute_load_7d, t.chronic_load_28d)
            /\ (~notna(t.chronic_load_28d) \/ t.chronic_load_28d.n = 0)
                  => t.acwr = I(0)

(* C16: acwr is acute_7d / chronic_28d when chronic_28d is defined and not  *)
(* zero and 0 otherwise; a series of exactly 7 samples whose mean (the      *)
(* chronic load) is 50 and whose last 7 calendar days average 60 (the acute *)
(* load) has acwr 1.2.                                                      *)
C16_Acwr ==
    TrainingLoadPage =>
        /\ AcwrIsRatioOrZero
        /\ (/\ Len(LoadRows) = 7
            /\ Mean([j \in 1..7 |-> LoadRows[j].custom_load]) = I(50)
            /\ CalendarAcute(7) = I(60))
              => LoadRows[7].acwr = Q(6, 5)

(* the ratio rule of C16 without its seven-sample example *)
C16_AcwrRatioRule ==
    TrainingLoadPage => AcwrIsRatioOrZero

C18_AcuteCalendarWindow ==
    TrainingLoadPage =>
        \A i \in 1..Len(LoadRows) : LoadRows[i].acute_load_7d = CalendarAcute(i)

(* ----------------------- correlations (C19, C20) ------------------------ *)
Correlated == correlation.status \in {"plotted", "not_enough"}

SummaryRows == {daily_df.rows[i] : i \in 1..Len(daily_df.rows)}

PairSet == {correlation.pairs[i] : i \in 1..Len(correlation.pairs)}

(* b comes after a in calendar order, rows without a date coming last *)
Follows(a, b) ==
    \/ Lt(a.calendarDate, b.calendarDate)
    \/ notna(a.calendarDate) /\ ~notna(b.calendarDate)

(* b is the row right after a in calendar order *)
NextRow(a, b) ==
    Follows(a, b) /\ ~\E c \in SummaryRows : Follows(a, c) /\ Follows(c, b)

(* the pairs of x of a day with y of the next row in calendar order *)
NextDayPairs ==
    {[x |-> ab[1][correlation.x_col], y |-> ab[2][correlation.y_col],
      calendarDate |-> ab[1].calendarDate] :
        ab \in {q \in SummaryRows \X SummaryRows :
                   /\ NextRow(q[1], q[2])
                   /\ notna(q[1][correlation.x_col])
                   /\ notna(q[2][correlation.y_col])}}

(* C19: with the next-day option the pairs are x of a row with y of the     *)
(* row that follows it in calendar order, the last row giving no pair,      *)
(* whatever the order of the raw rows.                                      *)
C19_NextDayPairsByDate ==
    (Correlated /\ correlation.next_day) =>
        /\ PairSet = NextDayPairs
        /\ Len(correlation.pairs) = Cardinality(NextDayPairs)

(* three summaries fetched out of calendar order, paired by date *)
C19_Witness ==
    /\ Correlated /\ correlation.next_day
    /\ Len(daily_raw) = 3
    /\ \E i, j \in 1..3 : i < j /\ daily_raw[i].calendarDate.k = "num"
                          /\ daily_raw[j].calendarDate.k = "num"
                          /\ daily_raw[i].calendarDate.n > daily_raw[j].calendarDate.n
    /\ Len(correlation.pairs) = 2

(* the y value create_correlation_plot pairs with row i *)
YData(i) ==
    IF correlation.next_day
    THEN (IF i < Len(daily_df.rows) THEN daily_df.rows[i + 1][correlation.y_col] ELSE NaN)
    ELSE daily_df.rows[i][correlation.y_col]

KeptRows ==
    {i \in 1..Len(daily_df.rows) :
        notna(daily_df.rows[i][correlation.x_col]) /\ notna(YData(i))}

(* C20: the rows where x or y is missing are dropped, the point count is    *)
(* the number of pairs left, and with fewer than 2 pairs no correlation     *)
(* coefficient is computed.                                                 *)
C20_FewerThanTwoPairs ==
    Correlated =>
        /\ \A q \in PairSet : notna(q.x) /\ notna(q.y)
        /\ Len(correlation.pairs) = Cardinality(KeptRows)
        /\ correlation.points = Cardinality(KeptRows)
        /\ correlation.points < 2 =>
              (correlation.status = "not_enough" /\ correlation.corr_coef.k = "none")
        /\ correlation.points >= 2 =>
              (correlation.status = "plotted" /\ correlation.corr_coef.k # "none")

(* three summaries of which a single pair is left: one point, no coefficient *)
C20_Witness ==
    /\ Correlated
    /\ Len(daily_df.rows) = 3
    /\ correlation.points = 1
    /\ correlation.corr_coef.k = "none"

(* ---------------- the dashboard summary --------------------------------- *)
(* the rows of the daily frame that fall in the bucket labelled L, and     *)
(* among them those with a stress value other than -1                      *)
BucketDays(L) ==
    {i \in 1..Len(daily_df.rows) :
        /\ notna(daily_df.rows[i].calendarDate)
        /\ resample_label(wellness.rule, daily_df.rows[i].calendarDate.n) = L}

MeasuredDays(L) ==
    {i \in BucketDays(L) : /\ notna(daily_df.rows[i].averageStressLevel)
                           /\ daily_df.rows[i].averageStressLevel # I(-1)}

RECURSIVE StressTotal(_)
StressTotal(days) ==
    IF days = {} THEN I(0)
    ELSE LET i == CHOOSE j \in days : TRUE
         IN  Add(daily_df.rows[i].averageStressLevel, StressTotal(days \ {i}))

(* C21: on the summary page, avg_Stress of every period is the mean of the *)
(* period's daily stress values other than -1, and is undefined (NaN, not  *)
(* 0 and not -1) when the period has no such value                         *)
C21_AvgStressSkipsSentinel ==
    page = "P0_Dashboard_Summary" =>
        \A k \in 1..Len(wellness.rows) :
            LET L == wellness.rows[k].calendarDate.n
                n == Cardinality(MeasuredDays(L))
            IN  IF n = 0 THEN wellness.rows[k].avg_Stress = NaN
                ELSE wellness.rows[k].avg_Stress = Div(StressTotal(MeasuredDays(L)), I(n))

(* a summary with one period whose -1 day is left out of a defined mean    *)
(* and another period that holds -1 days only                              *)
C21_Witness ==
    /\ page = "P0_Dashboard_Summary"
    /\ \E k \in 1..Len(wellness.rows) :
           LET L == wellness.rows[k].calendarDate.n
           IN  /\ MeasuredDays(L) # {} /\ MeasuredDays(L) # BucketDays(L)
               /\ \E i \in BucketDays(L) : daily_df.rows[i].averageStressLevel = I(-1)
               /\ notna(wellness.rows[k].avg_Stress)
    /\ \E k \in 1..Len(wellness.rows) :
           LET L == wellness.rows[k].calendarDate.n
           IN  /\ BucketDays(L) # {}
               /\ \A i \in BucketDays(L) : daily_df.rows[i].averageStressLevel = I(-1)
               /\ wellness.rows[k].avg_Stress = NaN

(* C22: a normalizer returns a result for every non-empty table, whatever  *)
(* a single record holds: a health page that loaded sleep entries or HRV   *)
(* summaries (and no daily summary, so that nothing but the normalizers    *)
(* ran on data) does not end in an exception, and a summary page that      *)
(* loaded daily summaries has its processed daily frame                    *)
C22_NormalizersAreTotal ==
    /\ (page = "P1_Health_overview" /\ daily_raw = <<>>) => ~raised
    /\ (page = "P0_Dashboard_Summary" /\ daily_raw # <<>>) => daily_df.rows # <<>>

(* C23: a source field that is missing or is no number is absent (NaN)     *)
(* after normalization, never 0: on the summary page, whose daily frame    *)
(* keeps the order of the raw table, a day without a numeric               *)
(* sleepingSeconds has no sleepingHours, and an activity without a numeric *)
(* duration, distance or average HR has no duration_minutes, distance_km   *)
(* or avgHR                                                                *)
C23_MissingStaysAbsent ==
    page = "P0_Dashboard_Summary" =>
        /\ \A i \in 1..Len(daily_df.rows) :
               daily_raw[i].sleepingSeconds.k # "num" =>
                   ~notna(daily_df.rows[i].sleepingHours)
        /\ \A i \in 1..Len(df.rows) :
               LET r == raw[df.rows[i].activityId]
               IN  /\ r.duration.k # "num" => ~notna(df.rows[i].duration_minutes)
                   /\ r.distance.k # "num" => ~notna(df.rows[i].distance_km)
                   /\ r.averageHR.k # "num" => ~notna(df.rows[i].avgHR)

(* C25: no consumer of averageStressLevel uses a -1 day: the stress trace  *)
(* of the health page has no point at -1, and no pair of a plotted         *)
(* correlation has -1 as its stress coordinate (the period mean of the     *)
(* summary page is the subject of C21)                                     *)
C25_SentinelFilteredEverywhere ==
    /\ \A i \in 1..Len(stress_plot) : stress_plot[i].averageStressLevel # I(-1)
    /\ correlation.status = "plotted" =>
        \A i \in 1..Len(correlation.pairs) :
           /\ correlation.x_col = "averageStressLevel" => correlation.pairs[i].x # I(-1)
           /\ correlation.y_col = "averageStressLevel" => correlation.pairs[i].y # I(-1)

(* ---------------- monthly buckets (C27) --------------------------------- *)
(* the dated runs of calendar month m *)
RunsOfMonth(m) ==
    SelectSeq(DatedRuns, LAMBDA r : m[1] <= r.date.n /\ r.date.n <= m[2])

(* the labels a row for calendar month m may carry: its days and the month *)
(* end before it                                                           *)
MonthLabels(m) == (m[1] - 1)..m[2]

(* C27: with monthly aggregation every calendar month that has a dated run *)
(* has one bucket holding exactly its runs: on the summary page a row      *)
(* whose number_of_runs and total distance are those of the month's runs,  *)
(* on the running page a row whose zone minutes are those of the month's   *)
(* runs                                                                    *)
C27_MonthlyBucketsAreCalendarMonths ==
    /\ (page = "P0_Dashboard_Summary" /\ running_agg.rule = "ME") =>
           \A m \in CalendarMonths :
               RunsOfMonth(m) # <<>> =>
                   \E k \in 1..Len(running_agg.rows) :
                       /\ running_agg.rows[k].date.n \in MonthLabels(m)
                       /\ running_agg.rows[k].number_of_runs = Len(RunsOfMonth(m))
                       /\ running_agg.rows[k].total_distance_km =
                              SumSeq([i \in 1..Len(RunsOfMonth(m)) |->
                                         RunsOfMonth(m)[i].distance_km])
    /\ (page = "P2_Running_performance" /\ time_in_zones.rule = "ME") =>
           \A m \in CalendarMonths :
               RunsOfMonth(m) # <<>> =>
                   \E t \in TableRows :
                       /\ t.date.n \in MonthLabels(m)
                       /\ \A z \in 1..5 : t.minutes[z] = MinutesBetween(m[1], m[2], z)

(* ---------------- the speed milestone (C26) ----------------------------- *)
(* the running activities with a positive maximum speed *)
SpeedCandidates == {r \in RowsOf(running) : Gt(r.maxSpeed, I(0))}

(* C26 as stated: the value of the 'Fastest Speed' record is the greatest  *)
(* positive maximum speed (m/s) of the running activities times 3.6.       *)
C26_ValueIsKmh ==
    (Detailed /\ "Fastest Speed" \in DOMAIN prs) =>
        /\ prs["Fastest Speed"].unit = "km/h"
        /\ \E w \in SpeedCandidates :
              /\ \A r \in SpeedCandidates : Ge(w.maxSpeed, r.maxSpeed)
              /\ prs["Fastest Speed"].id = w.activityId
              /\ prs["Fastest Speed"].value = Mul(w.maxSpeed, Q(36, 10))

(* C26 as amended: the 'Fastest Speed' record, whose unit is km/h, belongs *)
(* to a running activity with the greatest positive maximum speed; its     *)
(* value is that speed in m/s as recorded, and its formatted value, the    *)
(* one the page shows, is that speed times 3.6 to the nearest hundredth.   *)
C26_FormattedValueIsKmh ==
    Detailed =>
        /\ "Fastest Speed" \in DOMAIN prs <=> SpeedCandidates # {}
        /\ "Fastest Speed" \in DOMAIN prs =>
              /\ prs["Fastest Speed"].unit = "km/h"
              /\ \E w \in SpeedCandidates :
                    /\ \A r \in SpeedCandidates : Ge(w.maxSpeed, r.maxSpeed)
                    /\ prs["Fastest Speed"].id = w.activityId
                    /\ prs["Fastest Speed"].value = w.maxSpeed
                    /\ LET kmh == Mul(w.maxSpeed, Q(36, 10))
                           shown == prs["Fastest Speed"].formatted_value
                       IN  /\ 100 % shown.d = 0
                           /\ Le(Sub(kmh, Q(1, 200)), shown)
                           /\ Le(shown, Add(kmh, Q(1, 200)))

(* a winner at 5.123 m/s, shown as 18.44 km/h, next to a run without a     *)
(* positive maximum speed                                                  *)
C26_Witness ==
    /\ Detailed
    /\ "Fastest Speed" \in DOMAIN prs
    /\ prs["Fastest Speed"].value = Q(5123, 1000)
    /\ prs["Fastest Speed"].formatted_value = Q(1844, 100)
    /\ \E r \in RowsOf(running) : ~Gt(r.maxSpeed, I(0))

(* ---------------- fetching and caching (C24, C28-C30) ------------------- *)
Answered == served.loader.fn # "none"

(* the arguments a loader takes from the request *)
Taken(loader, args) == [a \in {q.arg : q \in loader.params} |-> args[a]]

(* C24: a page request is handed a memoized result only if that result was *)
(* produced by a request with the same user, date range and force-refresh  *)
(* argument, as far as the loader takes them                               *)
C24_MemoHitHasSameArguments ==
    (Answered /\ served.from_memo) =>
        Taken(served.loader, served.made_for) = Taken(served.loader, served.args)

(* the loaders that are handed the checkbox 'Force Refresh Data from       *)
(* Garmin' of app.py: those called with the session's date range           *)
SessionLoader == served.loader.own_range = <<>> /\ served.loader.fn # "__main__"

(* C28: a page request with 'Force Refresh Data from Garmin' selected is   *)
(* not answered from st.cache_data, and none of its tables is read from a  *)
(* cache file                                                              *)
C28_ForceRefreshBypassesCaches ==
    (Answered /\ SessionLoader /\ served.args.force_refresh) =>
        /\ ~served.from_memo
        /\ \A t \in DataTypes : served.data[t].source # "file"

(* C29: a fetch made while the remote calls fail writes no cache file and  *)
(* changes none                                                            *)
C29_FailedFetchLeavesCache ==
    [][(api = "down" /\ requests' # requests) => files' = files]_vars

(* C30: different usernames have different cache paths for the same data   *)
(* type and date range, and a table a request reads from a cache file is   *)
(* one that was fetched for the requesting user                            *)
C30_CacheIsPerUser ==
    /\ \A u, v \in Usernames, t \in DataTypes, r \in DateRanges :
           u # v => get_user_data_path(u, t, r[1], r[2]) # get_user_data_path(v, t, r[1], r[2])
    /\ (Answered /\ ~served.from_memo) =>
           \A t \in DataTypes :
               (served.data[t].source = "file" /\ served.data[t].df.kind = "table")
                   => served.data[t].df.owner = served.args.username

====
